---- MODULE Spec2Model ----
(***************************************************************************)
(* Agentic honey-pot: the message orchestrator (main.py), the signal       *)
(* classifier (scam_detector.py), the intelligence extractor               *)
(* (intelligence_extractor.py) and the reply / termination engine          *)
(* (ai_agent.py).                                                          *)
(*                                                                         *)
(* Texts.  A message text is a sequence of lower-case words (the spaces    *)
(* between them are implicit).  A keyword of the source is a sequence of   *)
(* words, and Python's `kw in text` is modelled by HasKeyword: the         *)
(* keyword's words occur at consecutive positions, each inside the word    *)
(* of the text (Inside lists the keywords that are proper substrings of a  *)
(* word of the vocabulary, e.g. "block" inside "blocked").                 *)
(* Confidence values are kept in hundredths (0.15 is 15): every            *)
(* contribution of the classifier is a multiple of 0.01, and for all       *)
(* combinations of contributions the IEEE double sum compares with 0.5     *)
(* and rounds to two places exactly as the exact sum does.                 *)
(***************************************************************************)
EXTENDS Integers, Sequences, FiniteSets, TLC

VARIABLES
    sessions,        \* main.py:47   dict session_id -> session record
    use_gemini,      \* ai_agent.py:32-38   backend configured at construction
    callback_tasks,  \* main.py:254  final-report tasks created, not yet run
    callback_log,    \* main.py:112-115  what the latest finished task logged
    dispatched,      \* history: per session id, number of tasks created (main.py:254)
    decisions,       \* history: per live session, the termination evaluations (main.py:236)
    last,            \* history: the request handled by the latest handle_message
    response,        \* the HTTP response of the latest request
    requests,        \* number of handle_message requests accepted so far
    tasks,           \* event loop: the handle_message coroutines in flight
    running,         \* event loop: the coroutine that holds the loop, or "idle"
    arg,             \* input of the function under test (function specifications)
    ret              \* its result

vars == <<sessions, use_gemini, callback_tasks, callback_log, dispatched, decisions,
          last, response, requests, tasks, running, arg, ret>>

Min(a, b) == IF a <= b THEN a ELSE b

Max(a, b) == IF a >= b THEN a ELSE b

Range(s) == {s[i] : i \in 1..Len(s)}

(***************************************************************************)
(* Words and keywords                                                      *)
(***************************************************************************)

\* str.lower() of a word of the vocabulary.
Lower(w) ==
    CASE w = "URGENT!" -> "urgent!"
      [] w = "Your"    -> "your"
      [] w = "We"      -> "we"
      [] w = "State"   -> "state"
      [] w = "Bank"    -> "bank"
      [] w = "You"     -> "you"
      [] w = "Please"  -> "please"
      [] w = "Also"    -> "also"
      [] w = "OTP"     -> "otp"
      [] w = "After"   -> "after"
      [] w = "Hi,"     -> "hi,"
      [] w = "John"    -> "john"
      [] w = "How"     -> "how"
      [] w = "Did"     -> "did"
      [] w = "Let"     -> "let"
      [] w = "Thanks!" -> "thanks!"
      [] w = "Rs.1"    -> "rs.1"
      [] OTHER         -> w

\* The keyword words of the source that occur inside a (lower-case) word of
\* the vocabulary, the word itself included.
Inside(w) ==
    CASE w = "blocked"          -> {"blocked", "block"}
      [] w = "urgent!"          -> {"urgent!", "urgent"}
      [] w = "suspended"        -> {"suspended", "suspend"}
      [] w = "1234567890@paytm" -> {"1234567890@paytm", "paytm", "pay"}
      [] w = "payment"          -> {"payment", "pay"}
      [] w = "account:"         -> {"account:", "account"}
      [] w = "team."            -> {"team.", "team"}
      [] w = "immediately."     -> {"immediately.", "immediately", "immediate"}
      [] w = "your"             -> {"your", "you"}
      [] w = "share"            -> {"share", "are"}
      [] w = "stupid"           -> {"stupid", "upi"}
      [] w = "deadline?"        -> {"deadline?", "deadline"}
      [] w = "you?"             -> {"you?", "you"}
      [] OTHER                  -> {w}

\* Those of them the word starts with, and those it ends with.
Starts(w) ==
    CASE w = "1234567890@paytm" -> {w}
      [] w = "share"            -> {w}
      [] w = "stupid"           -> {w}
      [] OTHER                  -> Inside(w)

Ends(w) ==
    CASE w = "1234567890@paytm" -> {w, "paytm"}
      [] w = "share"            -> {w, "are"}
      [] OTHER                  -> {w}

\* Python's `keyword in text` on lower-cased text: a one-word keyword lies
\* inside a word; a keyword of several words ends one word, equals the
\* words between and starts the last.
HasKeyword(kw, text) ==
    IF Len(kw) = 1
    THEN \E i \in 1..Len(text) : kw[1] \in Inside(Lower(text[i]))
    ELSE \E i \in 1..(Len(text) - Len(kw) + 1) :
            /\ kw[1] \in Ends(Lower(text[i]))
            /\ \A j \in 2..(Len(kw) - 1) : kw[j] = Lower(text[i + j - 1])
            /\ kw[Len(kw)] \in Starts(Lower(text[i + Len(kw) - 1]))

Hits(keywords, text) == Cardinality({kw \in keywords : HasKeyword(kw, text)})

AnyKeyword(keywords, text) == \E kw \in keywords : HasKeyword(kw, text)

urgency_keywords ==
    { <<"urgent">>, <<"immediately">>, <<"right", "now">>, <<"expire">>,
      <<"expires">>, <<"expired">>, <<"today", "only">>, <<"limited", "time">>,
      <<"act", "now">>, <<"hurry">>, <<"quick">>, <<"deadline">>, <<"suspend">>,
      <<"suspended">>, <<"blocked">>, <<"block">>, <<"freeze">>, <<"frozen">> }

threat_keywords ==
    { <<"account", "blocked">>, <<"account", "suspended">>, <<"legal", "action">>,
      <<"arrest">>, <<"police">>, <<"law", "enforcement">>, <<"penalty">>,
      <<"fine">>, <<"criminal">>, <<"lawsuit">>, <<"court">>, <<"jail">>,
      <<"prison">>, <<"warrant">> }

request_keywords ==
    { <<"verify">>, <<"confirm">>, <<"update">>, <<"share">>, <<"send">>,
      <<"provide">>, <<"click", "here">>, <<"link">>, <<"download">>,
      <<"install">>, <<"open", "attachment">>, <<"enter", "password">>,
      <<"enter", "pin">>, <<"enter", "otp">>, <<"card", "details">>, <<"cvv">>,
      <<"expire", "date">> }

financial_keywords ==
    { <<"bank", "account">>, <<"credit", "card">>, <<"debit", "card">>, <<"upi">>,
      <<"paytm">>, <<"phone", "pe">>, <<"google", "pay">>, <<"net", "banking">>,
      <<"ifsc">>, <<"account", "number">>, <<"cvv">>, <<"pin">>, <<"password">>,
      <<"otp">>, <<"transfer", "money">>, <<"refund">>, <<"cashback">>,
      <<"reward">>, <<"prize">>, <<"won">>, <<"lottery">>, <<"winner">> }

impersonation_keywords ==
    { <<"we", "are", "from">>, <<"calling", "from">>, <<"representative">>,
      <<"customer", "care">>, <<"support", "team">>, <<"security", "team">>,
      <<"fraud", "department">>, <<"bank", "official">>, <<"government">>,
      <<"tax", "department">>, <<"income", "tax">>, <<"rbi">>, <<"sebi">> }

sensitive_patterns ==
    { <<"otp">>, <<"cvv">>, <<"pin">>, <<"password">>, <<"card", "number">> }

cold_approach_phrases ==
    { <<"we", "are", "from">>, <<"calling", "from">>, <<"this", "is">> }

\* The words of the vocabulary that the detector's URL pattern matches.
DetectorUrlWords == {"http://x.co"}

\* re.search(patterns["url"], message)
HasUrl(text) == \E i \in 1..Len(text) : text[i] \in DetectorUrlWords

\* The letters of a word of the vocabulary: whether it has a lower-case
\* one, whether it has an upper-case one, whether its first character is
\* an upper-case letter.
HasLowerCase(w) == w \notin {"URGENT!", "OTP", "2", "!!", "9876543210"}

HasUpperCase(w) == Lower(w) # w

InitialUpper(w) == Lower(w) # w

\* len() of a word without lower-case letters (the length of a message is
\* only asked for when message.isupper(), that is when it has no other
\* word).
UpperLen(w) ==
    CASE w = "URGENT!"    -> 7
      [] w = "OTP"        -> 3
      [] w = "!!"         -> 2
      [] w = "9876543210" -> 10
      [] OTHER         -> 1

RECURSIVE MessageLen(_)
MessageLen(text) ==
    IF text = <<>> THEN 0
    ELSE UpperLen(Head(text)) + (IF Len(text) > 1 THEN 1 ELSE 0) + MessageLen(Tail(text))

\* _has_poor_grammar: repeated ! or ? (the word "!!"), a message longer
\* than 10 characters all in capitals, or more than 5 words of which more
\* than 70% start with a capital.
HasPoorGrammar(text) ==
    \/ \E i \in 1..Len(text) : text[i] = "!!"
    \/ /\ \A i \in 1..Len(text) : ~HasLowerCase(text[i])
       /\ \E i \in 1..Len(text) : HasUpperCase(text[i])
       /\ MessageLen(text) > 10
    \/ /\ Len(text) > 5
       /\ 10 * Cardinality({i \in 1..Len(text) : InitialUpper(text[i])}) > 7 * Len(text)

(***************************************************************************)
(* The catalogue of requests: the messages and histories the clients of    *)
(* the model send.  The classifier and the extractor are functions of the  *)
(* request alone, so their results are tabulated over the catalogue.       *)
(***************************************************************************)

SessionIds == {"s1", "s2"}

MaxRequests == 2

TextShareOtp == <<"urgent", "share", "otp">>

TextStopShareOtp == <<"stop", "asking", "questions", "share", "otp">>

TextStop == <<"stop", "asking", "questions">>

TextPay == <<"pay", "1234567890@paytm", "http://x.co">>

\* "URGENT! Your bank account will be blocked in 2 hours due to suspicious activity."
\* The bank-block transcript of test_extraction.py
TranscriptBankBlock ==
    << <<"URGENT!", "Your", "bank", "account", "will", "be", "blocked", "in", "2", "hours.">>,
       <<"We", "are", "from", "State", "Bank", "security", "team.", "You", "need", "to",
         "verify", "your", "account", "immediately.">>,
       <<"Please", "provide", "your", "account", "number", "and", "registered", "mobile",
         "number", "for", "verification.">>,
       <<"Also", "share", "the", "OTP", "we", "just", "sent", "to", "your", "phone", "to",
         "confirm", "your", "identity.">>,
       <<"After", "verification,", "we", "need", "you", "to", "transfer", "Rs.1", "to", "our",
         "security", "account:", "1234567890@paytm">> >>

TextBankBlock1 ==
    <<"URGENT!", "Your", "bank", "account", "will", "be", "blocked", "in", "2", "hours",
      "due", "to", "suspicious", "activity.">>

\* The legitimate-message scenario of test_scenarios.py
TranscriptLegitimate ==
    << <<"Hi,", "this", "is", "John", "from", "work.", "How", "are", "you?">>,
       <<"Did", "you", "get", "my", "email", "about", "the", "project", "deadline?">>,
       <<"Let", "me", "know", "if", "you", "need", "any", "help.">>,
       <<"Thanks!">> >>

Scammer(text) == [sender |-> "scammer", text |-> text]

Incoming ==
    { Scammer(TextShareOtp), Scammer(TextStopShareOtp), Scammer(TextStop),
      Scammer(TextPay), [sender |-> "user", text |-> TextShareOtp] }

Histories == { <<>>, <<Scammer(TextStop)>> }

Requests ==
    [sessionId : SessionIds, message : Incoming, conversationHistory : Histories]

\* all_messages[-5:]
LastFive(all_messages) ==
    SubSeq(all_messages, Max(1, Len(all_messages) - 4), Len(all_messages))

\* The random draws of one reply.
Draws == { [strategy |-> 0, reply |-> 0] }

\* recent_messages = all_messages[-5:] of the requests of the catalogue
RecentMessages == {LastFive(h \o <<m>>) : m \in Incoming, h \in Histories}

(***************************************************************************)
(* Signal classifier: ScamDetector.analyze                                 *)
(***************************************************************************)

\* A keyword category without its cap.
ContributionUncapped(hits, weight, cap) == hits * weight

\* One keyword category: min(hits * weight, cap), in hundredths.
Contribution(hits, weight, cap) == Min(hits * weight, cap)

\* The indicators in the order analyze appends them, with their contributions.
Signals(message, conversation_history) ==
    << [tag |-> "urgency_tactics",
        add |-> Contribution(Hits(urgency_keywords, message), 15, 30),
        on  |-> Hits(urgency_keywords, message) > 0],
       [tag |-> "threatening_language",
        add |-> Contribution(Hits(threat_keywords, message), 20, 40),
        on  |-> Hits(threat_keywords, message) > 0],
       [tag |-> "suspicious_requests",
        add |-> Contribution(Hits(request_keywords, message), 10, 25),
        on  |-> Hits(request_keywords, message) > 0],
       [tag |-> "financial_focus",
        add |-> Contribution(Hits(financial_keywords, message), 12, 30),
        on  |-> Hits(financial_keywords, message) > 0],
       [tag |-> "impersonation_attempt",
        add |-> Contribution(Hits(impersonation_keywords, message), 15, 35),
        on  |-> Hits(impersonation_keywords, message) > 0],
       [tag |-> "contains_links", add |-> 25, on |-> HasUrl(message)],
       [tag |-> "requests_sensitive_data", add |-> 35,
        on  |-> AnyKeyword(sensitive_patterns, message)],
       [tag |-> "unsolicited_contact", add |-> 20,
        on  |-> Len(conversation_history) = 0
                /\ AnyKeyword(cold_approach_phrases, message)],
       [tag |-> "poor_grammar", add |-> 10, on |-> HasPoorGrammar(message)] >>

RECURSIVE SumOn(_)
SumOn(sig) ==
    IF sig = <<>> THEN 0
    ELSE (IF Head(sig).on THEN Head(sig).add ELSE 0) + SumOn(Tail(sig))

RECURSIVE TagsOn(_)
TagsOn(sig) ==
    IF sig = <<>> THEN <<>>
    ELSE (IF Head(sig).on THEN <<Head(sig).tag>> ELSE <<>>) \o TagsOn(Tail(sig))

\* confidence_score = min(confidence_score, 1.0)
CapConfidence(score) == Min(score, 100)

\* The verdict with both thresholds required.
IsScamBoth(confidence_score, indicators) ==
    confidence_score >= 50 /\ Len(indicators) >= 3

\* The verdict with the confidence threshold at 0.3.
IsScamLowThreshold(confidence_score, indicators) ==
    confidence_score >= 30 \/ Len(indicators) >= 3

\* is_scam = confidence_score >= 0.5 or len(indicators) >= 3
IsScam(confidence_score, indicators) ==
    confidence_score >= 50 \/ Len(indicators) >= 3

\* _generate_notes: one clause per indicator, in the fixed order of the
\* function (the same as the order of analyze), joined with "; ".
Clause(tag) ==
    CASE tag = "urgency_tactics"         -> "Uses urgency to pressure victim"
      [] tag = "threatening_language"    -> "Employs threats or intimidation"
      [] tag = "suspicious_requests"     -> "Requests sensitive actions"
      [] tag = "financial_focus"         -> "Focuses on financial information"
      [] tag = "impersonation_attempt"   -> "Attempts to impersonate authority"
      [] tag = "contains_links"          -> "Contains potentially malicious links"
      [] tag = "requests_sensitive_data" -> "Directly requests sensitive data (OTP/PIN/CVV)"
      [] tag = "unsolicited_contact"     -> "Unsolicited contact from unknown source"
      [] tag = "poor_grammar"            -> "Exhibits poor grammar/formatting"

\* A classifier that returns no notes.
GenerateNotesEmpty(indicators) == <<>>

GenerateNotes(indicators) ==
    IF indicators = <<>> THEN <<"No significant scam indicators detected">>
    ELSE [i \in 1..Len(indicators) |-> Clause(indicators[i])]

\* round(confidence_score, 2): the score is a whole number of hundredths.
Round2(score) == score

Analyze(message, conversation_history) ==
    LET sig              == Signals(message, conversation_history)
        indicators       == TagsOn(sig)
        confidence_score == CapConfidence(SumOn(sig))
    IN  [is_scam    |-> IsScam(confidence_score, indicators),
         confidence |-> Round2(confidence_score),
         indicators |-> indicators,
         notes      |-> GenerateNotes(indicators)]

HistoryTexts(history) == [i \in 1..Len(history) |-> history[i].text]

\* analyze(message.text, [msg.text for msg in conversation_history], ...)
AnalyzeOf ==
    [m \in Incoming, h \in Histories |-> Analyze(m.text, HistoryTexts(h))]

(***************************************************************************)
(* Intelligence extractor: IntelligenceExtractor.extract                   *)
(*                                                                         *)
(* The pattern scans are given per word of the vocabulary: the digit run   *)
(* the phone and account patterns find in it (no two digit-bearing words   *)
(* of the vocabulary are adjacent in a text of the model), whether the     *)
(* handle and URL patterns match it.  Extracted phone numbers and account  *)
(* numbers are sequences of characters.  The lists of the source are       *)
(* sequences, in the order of the matches.                                 *)
(***************************************************************************)

\* list(set(values)): each value once.  The order Python gives is not
\* specified; nothing reads it.
RECURSIVE ListOfSet(_)
ListOfSet(S) ==
    IF S = {} THEN <<>>
    ELSE LET x == CHOOSE y \in S : TRUE IN <<x>> \o ListOfSet(S \ {x})

Dedupe(values) == ListOfSet(Range(values))

IntelKeys == {"bankAccounts", "upiIds", "phishingLinks", "phoneNumbers", "suspiciousKeywords"}

EmptyIntel == [k \in IntelKeys |-> <<>>]

\* The digit run inside a word, << >> when it has none.
DigitRun(w) ==
    CASE w = "1234567890@paytm" -> <<"1", "2", "3", "4", "5", "6", "7", "8", "9", "0">>
      [] w = "9876543210"       -> <<"9", "8", "7", "6", "5", "4", "3", "2", "1", "0">>
      [] OTHER                  -> << >>

\* Number of characters of a word that the handle or URL pattern matches.
Chars(w) ==
    CASE w = "1234567890@paytm" -> 16
      [] w = "http://x.co"      -> 11
      [] OTHER                  -> 0

\* upi.split('@')[-1].lower() and its length; "" for a word without '@'.
Provider(w) == IF w = "1234567890@paytm" THEN "paytm" ELSE ""

ProviderChars(w) == IF w = "1234567890@paytm" THEN 5 ELSE 0

valid_providers ==
    {"paytm", "phonepe", "googlepay", "ybl", "okaxis", "oksbi", "okicici",
     "okhdfc", "upi", "apl", "axl"}

\* re.findall(patterns["upi"], all_text): the words holding an '@'.
IsHandle(w) == Provider(w) # ""

UpiMatches(text) == SelectSeq(text, IsHandle)

\* _clean_and_validate_upi
ValidUpi(upi) ==
    /\ Provider(upi) # ""
    /\ Chars(upi) > 5
    /\ (Provider(upi) \in valid_providers \/ ProviderChars(upi) <= 10)

CleanAndValidateUpi(upi_matches) == SelectSeq(upi_matches, ValidUpi)

Digits == {"0", "1", "2", "3", "4", "5", "6", "7", "8", "9"}

IsDigit(c) == c \in Digits

\* re.sub(r'\D', '', candidate)
StripNonDigits(candidate) == SelectSeq(candidate, IsDigit)

DigitRuns(text) == [i \in 1..Len(text) |-> DigitRun(text[i])]

\* re.findall(patterns["phone"], all_text): a run of 4 to 17 digits.
IsPhoneMatch(d) == Len(d) >= 4 /\ Len(d) <= 17

PhoneMatches(text) == SelectSeq(DigitRuns(text), IsPhoneMatch)

ValidPhone(digits) == 10 <= Len(digits) /\ Len(digits) <= 15

\* The accepted candidates all written as "+" and their digits.
FormatPhonePlusOnly(digits) == <<"+">> \o digits

FormatPhone(digits) ==
    IF Len(digits) = 12 /\ SubSeq(digits, 1, 2) = <<"9", "1">>
        THEN <<"+", "9", "1">> \o SubSeq(digits, 3, Len(digits))
    ELSE IF Len(digits) = 11 /\ digits[1] = "0"
        THEN <<"+", "9", "1">> \o SubSeq(digits, 2, Len(digits))
    ELSE IF Len(digits) = 10
        THEN <<"+", "9", "1">> \o digits
    ELSE <<"+">> \o digits

\* _clean_and_validate_phones
CleanAndValidatePhones(phone_matches) ==
    LET digits == [i \in 1..Len(phone_matches) |-> StripNonDigits(phone_matches[i])]
        valid  == SelectSeq(digits, ValidPhone)
    IN  [i \in 1..Len(valid) |-> FormatPhone(valid[i])]

\* re.findall(patterns["account"], all_text): a whole run of 9 to 18 digits.
IsAccountMatch(d) == Len(d) >= 9 /\ Len(d) <= 18

AccountMatches(text) == SelectSeq(DigitRuns(text), IsAccountMatch)

Stars(n) == [i \in 1..n |-> "*"]

ValidAccount(clean) == 9 <= Len(clean) /\ Len(clean) <= 18

\* The mask that shows the first four digits only.
MaskAccountFirstFour(clean) == SubSeq(clean, 1, 4) \o Stars(Len(clean) - 4)

MaskAccount(clean) ==
    IF Len(clean) > 8
        THEN SubSeq(clean, 1, 4) \o Stars(Len(clean) - 8)
             \o SubSeq(clean, Len(clean) - 3, Len(clean))
    ELSE SubSeq(clean, 1, 4) \o Stars(Len(clean) - 4)

\* _clean_and_validate_accounts
CleanAndValidateAccounts(account_matches) ==
    LET clean == [i \in 1..Len(account_matches) |-> StripNonDigits(account_matches[i])]
        valid == SelectSeq(clean, ValidAccount)
    IN  [i \in 1..Len(valid) |-> MaskAccount(valid[i])]

\* re.findall(patterns["url"], all_text, re.IGNORECASE)
IsUrl(w) == w = "http://x.co"

UrlMatches(text) == SelectSeq(text, IsUrl)

\* _clean_and_validate_urls: the URL of the vocabulary carries its scheme
\* and no trailing punctuation.
ValidUrl(url) == Chars(url) > 5

CleanAndValidateUrls(url_matches) == SelectSeq(url_matches, ValidUrl)

\* re.findall(patterns["ifsc"], all_text): no word of the vocabulary is an
\* IFSC code.
IfscMatches(text) == <<>>

suspicious_keywords ==
    { <<"urgent">>, <<"immediate">>, <<"verify">>, <<"confirm">>, <<"blocked">>,
      <<"suspended">>, <<"expire">>, <<"deadline">>, <<"penalty">>, <<"fine">>,
      <<"arrest">>, <<"legal", "action">>, <<"click", "here">>, <<"download">>,
      <<"install">>, <<"otp">>, <<"cvv">>, <<"pin">>, <<"password">>,
      <<"account", "number">>, <<"card", "details">>, <<"transfer", "money">>,
      <<"refund">>, <<"cashback">>, <<"prize">>, <<"lottery">>, <<"winner">>,
      <<"reward">>, <<"tax", "refund">>, <<"government">>, <<"bank", "official">>,
      <<"customer", "care">> }

\* "urgent" for <<"urgent">>, "legal action" for <<"legal", "action">>: the
\* keyword as the string the source stores.
KeywordName(kw) ==
    CASE kw = <<"legal", "action">>    -> "legal action"
      [] kw = <<"click", "here">>      -> "click here"
      [] kw = <<"account", "number">>  -> "account number"
      [] kw = <<"card", "details">>    -> "card details"
      [] kw = <<"transfer", "money">>  -> "transfer money"
      [] kw = <<"tax", "refund">>      -> "tax refund"
      [] kw = <<"bank", "official">>   -> "bank official"
      [] kw = <<"customer", "care">>   -> "customer care"
      [] OTHER                         -> kw[1]

\* list(set(found_keywords))
FoundKeywords(text) ==
    ListOfSet({KeywordName(kw) : kw \in {k \in suspicious_keywords : HasKeyword(k, text)}})

\* _extract_contextual_intelligence: a dict with all five keys, four of
\* them always empty.
ExtractContextualIntelligence(text) ==
    [k \in IntelKeys |->
        IF k # "suspiciousKeywords" THEN <<>>
        ELSE
          (IF AnyKeyword({<<"tax", "refund">>, <<"income", "tax">>, <<"refund", "pending">>}, text)
             THEN <<"tax_refund_scam", "government_impersonation">> ELSE <<>>)
          \o  
          (IF AnyKeyword({<<"won", "prize">>, <<"lottery">>, <<"winner">>, <<"congratulations">>}, text)
             THEN <<"lottery_scam", "prize_scam">> ELSE <<>>)
          \o  
          (IF AnyKeyword({<<"account", "blocked">>, <<"account", "suspended">>, <<"kyc", "pending">>}, text)
             THEN <<"account_block_scam", "bank_impersonation">> ELSE <<>>)
          \o  
          (IF AnyKeyword({<<"share", "otp">>, <<"tell", "otp">>, <<"send", "otp">>}, text)
             THEN <<"otp_fraud", "credential_theft">> ELSE <<>>)
          \o  
          (IF AnyKeyword({<<"click", "link">>, <<"open", "link">>, <<"visit", "website">>}, text)
             THEN <<"phishing_attempt", "malicious_link">> ELSE <<>>)
          \o  
          (IF AnyKeyword({<<"transfer", "to">>, <<"send", "money", "to">>, <<"pay", "to">>}, text)
             THEN <<"payment_redirection", "money_transfer_scam">> ELSE <<>>)
          \o  
          (IF HasKeyword(<<"paytm">>, text) THEN <<"uses_paytm">> ELSE <<>>)
          \o  
          (IF HasKeyword(<<"phonepe">>, text) THEN <<"uses_phonepe">> ELSE <<>>)
          \o  
          (IF HasKeyword(<<"google", "pay">>, text) THEN <<"uses_google_pay">> ELSE <<>>)
          \o  
          (IF HasKeyword(<<"gpay">>, text) THEN <<"uses_gpay">> ELSE <<>>)
          \o  
          (IF HasKeyword(<<"bhim">>, text) THEN <<"uses_bhim">> ELSE <<>>)
          \o  
          (IF HasKeyword(<<"whatsapp", "pay">>, text) THEN <<"uses_whatsapp_pay">> ELSE <<>>)
          \o  
          (IF HasKeyword(<<"bank">>, text) THEN <<"impersonates_bank">> ELSE <<>>)
          \o  
          (IF HasKeyword(<<"police">>, text) THEN <<"impersonates_police">> ELSE <<>>)
          \o  
          (IF HasKeyword(<<"income", "tax">>, text) THEN <<"impersonates_income_tax">> ELSE <<>>)
          \o  
          (IF HasKeyword(<<"government">>, text) THEN <<"impersonates_government">> ELSE <<>>)
          \o  
          (IF HasKeyword(<<"customer", "care">>, text) THEN <<"impersonates_customer_care">> ELSE <<>>)
          \o  
          (IF HasKeyword(<<"security", "team">>, text) THEN <<"impersonates_security_team">> ELSE <<>>)
          \o  
          (IF HasKeyword(<<"fraud", "department">>, text) THEN <<"impersonates_fraud_department">> ELSE <<>>)
          \o  
          (IF HasKeyword(<<"cyber", "cell">>, text) THEN <<"impersonates_cyber_cell">> ELSE <<>>)]

\* dict.update: every key of `other` replaces the value held under it.
DictUpdate(d, other) ==
    [k \in DOMAIN d \cup DOMAIN other |-> IF k \in DOMAIN other THEN other[k] ELSE d[k]]

\* The join of the texts of all the messages, whoever sent them.
RECURSIVE AnySenderText(_)
AnySenderText(conversation) ==
    IF conversation = <<>> THEN <<>>
    ELSE Head(conversation).text \o AnySenderText(Tail(conversation))

\* " ".join(texts of the messages whose sender is "scammer")
RECURSIVE ScammerText(_)
ScammerText(conversation) ==
    IF conversation = <<>> THEN <<>>
    ELSE (IF Head(conversation).sender = "scammer" THEN Head(conversation).text ELSE <<>>)
         \o ScammerText(Tail(conversation))

\* The per-type scans of extract, before the contextual pass.
Scans(all_text) ==
    [bankAccounts       |-> CleanAndValidateAccounts(AccountMatches(all_text))
                            \o [i \in 1..Len(IfscMatches(all_text)) |->
                                   <<"I", "F", "S", "C", ":">> \o IfscMatches(all_text)[i]],
     upiIds             |-> CleanAndValidateUpi(UpiMatches(all_text)),
     phishingLinks      |-> CleanAndValidateUrls(UrlMatches(all_text)),
     phoneNumbers       |-> CleanAndValidatePhones(PhoneMatches(all_text)),
     suspiciousKeywords |-> FoundKeywords(all_text)]

\* extract: the scans, then intelligence.update(contextual), then the
\* removal of duplicates from every list.
Extract(conversation, latest_message) ==
    LET all_text     == ScammerText(conversation) \o latest_message
        intelligence == DictUpdate(Scans(all_text), ExtractContextualIntelligence(all_text))
    IN  [k \in DOMAIN intelligence |-> Dedupe(intelligence[k])]

\* extract(conversation = history + [message], latest_message = message.text)
ExtractOf ==
    [m \in Incoming, h \in Histories |-> Extract(h \o <<m>>, m.text)]

(***************************************************************************)
(* Reply engine: ScamEngagementAgent                                       *)
(*                                                                         *)
(* A backend text is a sequence of characters.  A template reply is kept   *)
(* whole, as a text of one word.  The random draws of the template path    *)
(* are an input rnd = [strategy, reply] of two indices.                    *)
(***************************************************************************)

\* len(reply) > 500
MaxReplyLen == 500

RECURSIVE LStrip(_)
LStrip(t) == IF t # <<>> /\ Head(t) = " " THEN LStrip(Tail(t)) ELSE t

RECURSIVE RStrip(_)
RStrip(t) == IF t # <<>> /\ t[Len(t)] = " " THEN RStrip(SubSeq(t, 1, Len(t) - 1)) ELSE t

\* str.strip()
Strip(t) == RStrip(LStrip(t))

\* Position of the last space of t, 0 when it has none.
LastSpace(t) ==
    LET spaces == {i \in 1..Len(t) : t[i] = " "}
    IN  IF spaces = {} THEN 0 ELSE CHOOSE i \in spaces : \A j \in spaces : j <= i

\* reply[:500].rsplit(' ', 1)[0] + "..."
Truncate(reply) ==
    LET cut == SubSeq(reply, 1, MaxReplyLen)
        sp  == LastSpace(cut)
    IN  (IF sp = 0 THEN cut ELSE SubSeq(cut, 1, sp - 1)) \o <<".", ".", ".">>

\* _generate_gemini_response after the backend returned `text`.
CleanGeminiText(text) ==
    LET r1 == Strip(text)
        r2 == IF r1 # <<>> /\ Head(r1) = "\"" THEN Tail(r1) ELSE r1
        r3 == IF r2 # <<>> /\ r2[Len(r2)] = "\"" THEN SubSeq(r2, 1, Len(r2) - 1) ELSE r2
    IN  IF Len(r3) > MaxReplyLen THEN Truncate(r3) ELSE r3

payment_triggers ==
    { <<"payment">>, <<"money">>, <<"transfer">>, <<"upi">>, <<"account">>,
      <<"refund">>, <<"pin">>, <<"otp">>, <<"pay">> }

link_triggers == { <<"click">>, <<"link">>, <<"download">>, <<"install">>, <<"website">> }

\* random.choice(options) with the draw given.
Choice(options, draw) == options[(draw % Len(options)) + 1]

\* _determine_strategy
DetermineStrategy(incoming_message, message_count, draw) ==
    IF message_count <= 2 THEN
        IF AnyKeyword(payment_triggers, incoming_message) THEN "request_payment_details"
        ELSE IF AnyKeyword({<<"urgent">>, <<"immediately">>, <<"block">>}, incoming_message)
            THEN Choice(<<"express_confusion", "play_along">>, draw)
        ELSE Choice(<<"ask_for_details", "play_along">>, draw)
    ELSE IF message_count <= 5 THEN
        IF AnyKeyword({<<"verify">>, <<"confirm">>}, incoming_message)
            THEN Choice(<<"play_along", "request_verification">>, draw)
        ELSE IF AnyKeyword(payment_triggers, incoming_message) THEN "request_payment_details"
        ELSE IF AnyKeyword(link_triggers, incoming_message) THEN "play_along"
        ELSE Choice(<<"play_along", "ask_for_details", "show_urgency">>, draw)
    ELSE
        IF AnyKeyword(payment_triggers, incoming_message) THEN "request_payment_details"
        ELSE IF AnyKeyword(link_triggers, incoming_message) THEN "play_along"
        ELSE Choice(<<"play_along", "show_urgency", "ask_for_details">>, draw)

\* _determine_strategy over the catalogue
StrategyOf ==
    [text \in {m.text : m \in Incoming},
     message_count \in {Len(h) + 1 : h \in Histories},
     draw \in {d.strategy : d \in Draws} |->
        DetermineStrategy(text, message_count, draw)]

\* self.strategies: the generic template list of each strategy.
Strategies(strategy) ==
    CASE strategy = "ask_for_details" ->
           << "wait what? can u tell me more?",
              "i dont understand... whats the problem exactly",
              "who r u? from which dept?",
              "whats ur name? give me ur ID number",
              "ok but first tell me... why this is happening to me",
              "sorry im bit confused... explain again pls" >>
      [] strategy = "request_verification" ->
           << "can u share a reference no?",
              "whats the case number?",
              "send me official email pls",
              "is there a number i can call to confirm?" >>
      [] strategy = "play_along" ->
           << "ok ok i understand... what next?",
              "fine... im ready to fix this. wat do i need to do",
              "just tell me wat information u want",
              "how do i do this? im ready",
              "ok what should i do now... im waiting",
              "alright... guide me step by step" >>
      [] strategy = "express_confusion" ->
           << "wait im not getting it... explain again",
              "huh? can u say that one more time",
              "why this happning? i didnt do anything wrong",
              "but i never got any msg about this...",
              "when did all this happen?? im confused",
              "sorry my head is spinning... go slow pls" >>
      [] strategy = "show_urgency" ->
           << "omg this sounds really serious!!",
              "i dont want problems... will fix it asap",
              "ok ill do watever needed... just help me fast",
              "how much time i have?? deadline??",
              "plz this is urgent right? tell me quickly",
              "oh god... ok ok what to do what to do" >>
      [] strategy = "request_payment_details" ->
           << "ok where should i send money?",
              "whats ur account no? or UPI?",
              "give me ur UPI ID ill send now",
              "is there any link i need to click?",
              "which app? paytm? gpay? phonepe?",
              "how much i need to pay? and where to send",
              "send your UPI id and name pls" >>

\* _generate_contextual_response, on its default path: a draw from the
\* strategy's generic list.  (The topic lists and the persona lists it may
\* draw from instead are literal lists of non-empty strings as well, and
\* add_human_touch replaces or appends characters, never removes a reply.)
GenerateContextualResponse(strategy, draw) == << Choice(Strategies(strategy), draw) >>

\* generate_response.  backend is what model.generate_content does when it
\* is called: [kind |-> "raise"] or [kind |-> "text", text |-> characters].
GenerateResponse(incoming_message, conversation_history, gemini, backend, rnd) ==
    LET message_count == Len(conversation_history)
        strategy == IF <<incoming_message, message_count, rnd.strategy>> \in DOMAIN StrategyOf
                    THEN StrategyOf[incoming_message, message_count, rnd.strategy]
                    ELSE DetermineStrategy(incoming_message, message_count, rnd.strategy)
    IN  IF gemini /\ backend.kind = "text"
        THEN [reply |-> CleanGeminiText(backend.text), strategy |-> "gemini_ai"]
        ELSE [reply |-> GenerateContextualResponse(strategy, rnd.reply),
              strategy |-> strategy]

safe_responses ==
    << "sorry didnt get that... can u clarify?",
       "huh? not sure i understand wat u mean",
       "thanks for msg... but what is this about?",
       "i dont think i asked for this... who are u?",
       "wrong number maybe?",
       "im busy rn... can this wait?",
       "???",
       "ok... and?" >>

\* generate_safe_response
GenerateSafeResponse(draw) == << Choice(safe_responses, draw) >>

suspicious_phrases ==
    { <<"you", "are", "wasting", "my", "time">>, <<"stop", "asking", "questions">>,
      <<"just", "do", "it">>, <<"are", "you", "stupid">>,
      <<"why", "so", "many", "questions">>, <<"this", "is", "your", "last", "chance">> }

\* The text of the last message of recent_messages sent by "scammer";
\* << >> when there is none (None and "" are both false in the source).
RECURSIVE LastScammerMessage(_)
LastScammerMessage(recent_messages) ==
    IF recent_messages = <<>> THEN <<>>
    ELSE IF recent_messages[Len(recent_messages)].sender = "scammer"
        THEN recent_messages[Len(recent_messages)].text
    ELSE LastScammerMessage(SubSeq(recent_messages, 1, Len(recent_messages) - 1))

\* Lines 604-622: the last scammer message of recent_messages is not empty
\* and holds one of the suspicious phrases.
SuspiciousOf ==
    [recent_messages \in RecentMessages |->
        /\ LastScammerMessage(recent_messages) # <<>>
        /\ AnyKeyword(suspicious_phrases, LastScammerMessage(recent_messages))]

ScammerSuspicious(recent_messages) ==
    IF recent_messages \in DOMAIN SuspiciousOf THEN SuspiciousOf[recent_messages]
    ELSE /\ LastScammerMessage(recent_messages) # <<>>
         /\ AnyKeyword(suspicious_phrases, LastScammerMessage(recent_messages))

\* The hard cap and the sufficiency threshold of should_end_conversation.
MessageLimit == 20

SufficientMessages == 12

PaymentKeys == {"upiIds", "bankAccounts", "phoneNumbers", "phishingLinks"}

IntelTypesCount(intelligence) == Cardinality({k \in PaymentKeys : intelligence[k] # <<>>})

\* The sufficiency condition with one category enough.
SufficientIntelligenceOneType(session) ==
    /\ IntelTypesCount(session.intelligence) >= 1
    /\ Len(session.messages) >= SufficientMessages

\* Lines 587-599: the condition of the sufficiency rule.
SufficientIntelligence(session) ==
    LET intelligence     == session.intelligence
        has_payment_info == \E k \in PaymentKeys : intelligence[k] # <<>>
    IN  /\ has_payment_info
        /\ IntelTypesCount(intelligence) >= 2
        /\ Len(session.messages) >= SufficientMessages

\* should_end_conversation with the cap tested by > instead of >=.
EndRuleAboveLimit(session, recent_messages) ==
    IF Len(session.messages) > MessageLimit THEN "message_limit"
    ELSE IF SufficientIntelligence(session) THEN "sufficient_intelligence"
    ELSE IF ScammerSuspicious(recent_messages) THEN "scammer_suspicious"
    ELSE "none"

\* should_end_conversation without its suspicion rule.
EndRuleNoSuspicion(session, recent_messages) ==
    IF Len(session.messages) >= MessageLimit THEN "message_limit"
    ELSE IF SufficientIntelligence(session) THEN "sufficient_intelligence"
    ELSE "none"

\* The rule of should_end_conversation that returns True, "none" when the
\* conversation continues.
EndRule(session, recent_messages) ==
    LET message_count == Len(session.messages)
    IN  IF message_count >= MessageLimit THEN "message_limit"
        ELSE IF SufficientIntelligence(session) THEN "sufficient_intelligence"
        ELSE IF ScammerSuspicious(recent_messages) THEN "scammer_suspicious"
        ELSE "none"

ShouldEndConversation(session, recent_messages) == EndRule(session, recent_messages) # "none"

(***************************************************************************)
(* Orchestrator: main.py                                                   *)
(***************************************************************************)

\* The session created for an unseen id (created_at is left out).
NewSession ==
    [messages         |-> <<>>,
     scam_detected    |-> FALSE,
     confidence_score |-> 0,
     intelligence     |-> EmptyIntel,
     agent_notes      |-> <<>>]

\* The merge with the extension left out: the extract result replaces the set.
MergeOverwrite(intelligence, extracted_intel) ==
    [k \in DOMAIN intelligence |->
        IF k \in DOMAIN extracted_intel THEN extracted_intel[k] ELSE intelligence[k]]

\* The merge of handle_message without its list(set(...)).
MergeExtendOnly(intelligence, extracted_intel) ==
    [k \in DOMAIN intelligence |->
        IF k \in DOMAIN extracted_intel
        THEN intelligence[k] \o extracted_intel[k]
        ELSE intelligence[k]]

\* for key in extracted_intel: extend, then list(set(...))
MergeIntelligence(intelligence, extracted_intel) ==
    [k \in DOMAIN intelligence |->
        IF k \in DOMAIN extracted_intel
        THEN Dedupe(intelligence[k] \o extracted_intel[k])
        ELSE intelligence[k]]

\* " | ".join(agent_notes), or the default text
JoinNotes(agent_notes) ==
    IF agent_notes = <<>> THEN << <<"Scam engagement completed successfully">> >>
    ELSE agent_notes

FinalResultPayload(session_id, session) ==
    [sessionId              |-> session_id,
     scamDetected           |-> TRUE,
     totalMessagesExchanged |-> Len(session.messages),
     extractedIntelligence  |-> session.intelligence,
     agentNotes             |-> JoinNotes(session.agent_notes)]

\* The incoming message recorded in place of the list.
ReceivedReplacing(store, request) ==
    LET session == IF request.sessionId \in DOMAIN store
                   THEN store[request.sessionId] ELSE NewSession
    IN  [session EXCEPT !.messages = <<request.message>>]

\* Lines 161-180: the session of the request, with the incoming message added.
Received(store, request) ==
    LET session == IF request.sessionId \in DOMAIN store
                   THEN store[request.sessionId] ELSE NewSession
    IN  [session EXCEPT !.messages = Append(@, request.message)]

AllMessages(request) == request.conversationHistory \o <<request.message>>

\* Lines 186-190: scam_detector.analyze(message.text, [msg.text for msg in history])
ScamResult(request) == AnalyzeOf[request.message, request.conversationHistory]

\* A session that keeps the flag once raised, and its highest confidence.
ClassifiedSticky(session, scam_result) ==
    [session EXCEPT !.scam_detected = @ \/ scam_result.is_scam,
                    !.confidence_score = Max(@, scam_result.confidence)]

\* Lines 192-193
Classified(session, scam_result) ==
    [session EXCEPT !.scam_detected = scam_result.is_scam,
                    !.confidence_score = scam_result.confidence]

\* Lines 198-208
Extracted(session, request) ==
    [session EXCEPT !.intelligence =
        MergeIntelligence(@, ExtractOf[request.message, request.conversationHistory])]

\* The notes are kept but the agent reply is not recorded.
RepliedNotRecorded(session, scam_result, agent_response) ==
    [session EXCEPT !.agent_notes = IF scam_result.notes # <<>>
                                    THEN Append(@, scam_result.notes) ELSE @]

\* Lines 225-233
Replied(session, scam_result, agent_response) ==
    [session EXCEPT !.agent_notes = IF scam_result.notes # <<>>
                                    THEN Append(@, scam_result.notes) ELSE @,
                    !.messages = Append(@, [sender |-> "user", text |-> agent_response.reply])]

\* A handler that runs the termination check whatever the verdict.
OutcomeUngated(request, scam_result, s3, agent_response, rnd) ==
    LET s4 == Replied(s3, scam_result, agent_response)
        should_end == ShouldEndConversation(IF scam_result.is_scam THEN s4 ELSE s3,
                                            LastFive(AllMessages(request)))
    IN  [session    |-> IF scam_result.is_scam THEN s4 ELSE s3,
         is_scam    |-> scam_result.is_scam,
         evaluated  |-> TRUE,
         should_end |-> should_end,
         response   |-> [op |-> "handle_message", session_id |-> request.sessionId,
                         status |-> 200,
                         reply |-> IF scam_result.is_scam THEN agent_response.reply
                                   ELSE GenerateSafeResponse(rnd.reply),
                         scamDetected |-> scam_result.is_scam,
                         confidenceScore |-> scam_result.confidence]]

\* Lines 236-274: the termination decision and the two responses, from the
\* results of the calls made before them.
Outcome(request, scam_result, s3, agent_response, rnd) ==
    LET s4 == Replied(s3, scam_result, agent_response)
        should_end == ShouldEndConversation(s4, LastFive(AllMessages(request)))
    IN  IF scam_result.is_scam
        THEN [session    |-> s4,
              is_scam    |-> TRUE,
              evaluated  |-> TRUE,
              should_end |-> should_end,
              response   |-> [op |-> "handle_message", session_id |-> request.sessionId,
                              status |-> 200, reply |-> agent_response.reply,
                              scamDetected |-> TRUE,
                              confidenceScore |-> scam_result.confidence]]
        ELSE [session    |-> s3,
              is_scam    |-> FALSE,
              evaluated  |-> FALSE,
              should_end |-> FALSE,
              response   |-> [op |-> "handle_message", session_id |-> request.sessionId,
                              status |-> 200, reply |-> GenerateSafeResponse(rnd.reply),
                              scamDetected |-> FALSE,
                              confidenceScore |-> scam_result.confidence]]

\* A handler that extracts only from the messages classified as scam.
AnalysedScamOnly(session, request, scam_result) ==
    IF scam_result.is_scam
    THEN Extracted(Classified(session, scam_result), request)
    ELSE Classified(session, scam_result)

\* Lines 186-208: the session after classification and extraction.
Analysed(session, request, scam_result) ==
    Extracted(Classified(session, scam_result), request)

\* handle_message as one function of the store and the request: the session
\* it leaves, the response, and what the termination step did.
Handle(store, request, gemini, backend, rnd) ==
    Outcome(request,
            ScamResult(request),
            Analysed(Received(store, request), request, ScamResult(request)),
            GenerateResponse(request.message.text, AllMessages(request),
                             gemini, backend, rnd),
            rnd)

\* dict assignment sessions[session_id] = session
Put(store, session_id, session) ==
    [k \in DOMAIN store \cup {session_id} |-> IF k = session_id THEN session ELSE store[k]]

\* del sessions[session_id]
Remove(store, session_id) == [k \in DOMAIN store \ {session_id} |-> store[k]]

NoResponse ==
    [op |-> "none", session_id |-> "", status |-> 0, reply |-> <<>>,
     scamDetected |-> FALSE, confidenceScore |-> 0]

NoRequest ==
    [sessionId |-> "", message |-> [sender |-> "", text |-> <<>>],
     conversationHistory |-> <<>>, is_scam |-> FALSE, evaluated |-> FALSE,
     should_end |-> FALSE]

\* Lines 208-260: the session is stored, the final result is handed to a
\* task when the conversation ends, and the response is returned.
Commit(h, sid, request) ==
    /\ sessions' = Put(sessions, sid, h.session)
    /\ response' = h.response
    /\ last' = [sessionId |-> sid, message |-> request.message,
                conversationHistory |-> request.conversationHistory,
                is_scam |-> h.is_scam, evaluated |-> h.evaluated,
                should_end |-> h.should_end]
    /\ decisions' =
         IF h.evaluated
         THEN [decisions EXCEPT ![sid] =
                  Append(@, [count |-> Len(h.session.messages), end |-> h.should_end])]
         ELSE decisions
    /\ dispatched' =
         IF h.should_end THEN [dispatched EXCEPT ![sid] = @ + 1] ELSE dispatched
    /\ callback_tasks' =
         IF h.should_end
         THEN Append(callback_tasks, FinalResultPayload(sid, h.session))
         ELSE callback_tasks
    /\ requests' = requests + 1
    /\ UNCHANGED <<use_gemini, callback_log, tasks, running, arg, ret>>

\* POST /api/message
HandleMessage(request, backend, rnd) ==
    Commit(Handle(sessions, request, use_gemini, backend, rnd), request.sessionId, request)

\* A read that creates the session it does not find.
GetSessionCreating(session_id) ==
    /\ response' = [NoResponse EXCEPT !.op = "get_session", !.session_id = session_id,
                       !.status = 200]
    /\ sessions' = IF session_id \in DOMAIN sessions THEN sessions
                   ELSE Put(sessions, session_id, NewSession)
    /\ UNCHANGED <<use_gemini, callback_tasks, callback_log, dispatched, decisions,
                   last, requests, tasks, running, arg, ret>>

\* GET /api/session/{session_id}
GetSession(session_id) ==
    /\ response' = [NoResponse EXCEPT !.op = "get_session", !.session_id = session_id,
                       !.status = IF session_id \in DOMAIN sessions THEN 200 ELSE 404]
    /\ UNCHANGED <<sessions, use_gemini, callback_tasks, callback_log, dispatched, decisions,
                   last, requests, tasks, running, arg, ret>>

\* A delete that answers success whether or not the id is stored.
DeleteSessionSilent(session_id) ==
    /\ sessions' = Remove(sessions, session_id)
    /\ response' = [NoResponse EXCEPT !.op = "delete_session",
                       !.session_id = session_id, !.status = 200]
    /\ decisions' = [decisions EXCEPT ![session_id] = <<>>]
    /\ dispatched' = [dispatched EXCEPT ![session_id] = 0]
    /\ UNCHANGED <<use_gemini, callback_tasks, callback_log, last, requests, tasks,
                   running, arg, ret>>

\* DELETE /api/session/{session_id}
DeleteSession(session_id) ==
    /\ IF session_id \in DOMAIN sessions
       THEN /\ sessions' = Remove(sessions, session_id)
            /\ response' = [NoResponse EXCEPT !.op = "delete_session",
                               !.session_id = session_id, !.status = 200]
       ELSE /\ sessions' = sessions
            /\ response' = [NoResponse EXCEPT !.op = "delete_session",
                               !.session_id = session_id, !.status = 404]
    /\ decisions' = [decisions EXCEPT ![session_id] = <<>>]
    /\ dispatched' = [dispatched EXCEPT ![session_id] = 0]
    /\ UNCHANGED <<use_gemini, callback_tasks, callback_log, last, requests, tasks, running,
                   arg, ret>>

\* send_final_result_callback that schedules the delivery again when the
\* post fails.
SendFinalResultCallbackRetry(ok) ==
    /\ callback_tasks # <<>>
    /\ callback_tasks' = IF ok THEN Tail(callback_tasks)
                         ELSE Append(Tail(callback_tasks), Head(callback_tasks))
    /\ callback_log' = IF ok THEN "Successfully sent final result"
                             ELSE "Failed to send final result"
    /\ UNCHANGED <<sessions, use_gemini, dispatched, decisions, last, response,
                   requests, tasks, running, arg, ret>>

\* send_final_result_callback, run by the thread of a created task: the
\* post succeeds or fails; either way only a line is logged, and the
\* value returned is dropped with the task.
SendFinalResultCallback(ok) ==
    /\ callback_tasks # <<>>
    /\ callback_tasks' = Tail(callback_tasks)
    /\ callback_log' = IF ok THEN "Successfully sent final result"
                             ELSE "Failed to send final result"
    /\ UNCHANGED <<sessions, use_gemini, dispatched, decisions, last, response,
                   requests, tasks, running, arg, ret>>

(***************************************************************************)
(* The service: requests drawn from a small catalogue                      *)
(***************************************************************************)

\* What the backend does when asked: it fails, or returns a text.
BackendOutcomes ==
    { [kind |-> "raise", text |-> <<>>],
      [kind |-> "text", text |-> <<"\"", "o", "k", "\"">>] }

\* No handler holds the event loop.
Idle == 0

\* The state of a process that has served no request yet.
Fresh ==
    /\ sessions = <<>>
    /\ callback_tasks = <<>>
    /\ callback_log = ""
    /\ dispatched = [s \in SessionIds |-> 0]
    /\ decisions = [s \in SessionIds |-> <<>>]
    /\ last = NoRequest
    /\ response = NoResponse
    /\ requests = 0
    /\ running = Idle

Init ==
    /\ Fresh
    /\ tasks = <<>>
    /\ use_gemini \in BOOLEAN
    /\ arg = <<>>
    /\ ret = <<>>

Next ==
    \/ \E request \in Requests, backend \in BackendOutcomes, rnd \in Draws :
          requests < MaxRequests /\ HandleMessage(request, backend, rnd)
    \/ \E session_id \in SessionIds : GetSession(session_id)
    \/ \E session_id \in SessionIds : DeleteSession(session_id)
    \/ \E ok \in BOOLEAN : SendFinalResultCallback(ok)

Spec == Init /\ [][Next]_vars

(***************************************************************************)
(* One long conversation: a single session fed up to the hard cap          *)
(***************************************************************************)

MaxCapMessages == 21

CapRequests ==
    [sessionId : {"s1"}, message : {Scammer(TextShareOtp), Scammer(TextPay)},
     conversationHistory : {<<>>}]

InitCap == Init /\ use_gemini = FALSE

NextCap ==
    \/ \E request \in CapRequests, rnd \in Draws :
          /\ "s1" \in DOMAIN sessions => Len(sessions["s1"].messages) < MaxCapMessages
          /\ HandleMessage(request, [kind |-> "raise", text |-> <<>>], rnd)
    \/ \E ok \in BOOLEAN : SendFinalResultCallback(ok)

SpecCap == InitCap /\ [][NextCap]_vars

(***************************************************************************)
(* The components called on their own: one call, its argument in arg and   *)
(* its result in ret                                                       *)
(***************************************************************************)

service == <<sessions, use_gemini, callback_tasks, callback_log, dispatched,
             decisions, last, response, requests, tasks, running>>

NoResult == [done |-> FALSE]

\* should_end_conversation(session, recent_messages)
MaxEndCount == 22

SessionWith(message_count, categories) ==
    [NewSession EXCEPT
        !.messages = [i \in 1..message_count |-> Scammer(TextPay)],
        !.intelligence = [k \in IntelKeys |-> IF k \in categories THEN <<"found">> ELSE <<>>]]

EndArgs ==
    [message_count : 0..MaxEndCount, categories : SUBSET PaymentKeys,
     recent_messages : RecentMessages]

InitEnd ==
    /\ Fresh
    /\ tasks = <<>>
    /\ use_gemini = FALSE
    /\ arg \in EndArgs
    /\ ret = NoResult

CallShouldEndConversation ==
    LET session == SessionWith(arg.message_count, arg.categories)
    IN  /\ ~ret.done
        /\ ret' = [done |-> TRUE,
                   end |-> ShouldEndConversation(session, arg.recent_messages),
                   sufficient |-> SufficientIntelligence(session)]
        /\ UNCHANGED <<service, arg>>

NextEnd == CallShouldEndConversation

SpecEnd == InitEnd /\ [][NextEnd]_vars

\* ScamDetector.analyze(message, conversation_history)
MaxWords == 4

WordList ==
    <<"urgent", "blocked", "police", "arrest", "verify", "share", "upi", "otp",
      "government", "this", "is", "http://x.co", "!!">>

\* The texts made of at most MaxWords words of WordList, in its order.
AnalyzeTexts ==
    UNION { { [i \in 1..n |-> WordList[p[i]]] :
                p \in { q \in [1..n -> 1..Len(WordList)] :
                          \A i \in 1..n, j \in 1..n : i < j => q[i] < q[j] } } :
            n \in 0..MaxWords }

InitAnalyze ==
    /\ Fresh
    /\ tasks = <<>>
    /\ use_gemini = FALSE
    /\ arg \in [message : AnalyzeTexts \cup {TextBankBlock1} \cup Range(TranscriptLegitimate),
                conversation_history : {<<>>, <<TextStop>>}]
    /\ ret = NoResult

CallAnalyze ==
    /\ ~ret.done
    /\ ret' = [done |-> TRUE, result |-> Analyze(arg.message, arg.conversation_history)]
    /\ UNCHANGED <<service, arg>>

NextAnalyze == CallAnalyze

SpecAnalyze == InitAnalyze /\ [][NextAnalyze]_vars

\* ScamEngagementAgent.generate_response(incoming_message, conversation_history, ...)
MaxBackendLen == 2

MaxDraw == 2

BackendChars == {"a", " ", "\""}

BackendTexts == UNION { [1..n -> BackendChars] : n \in 0..MaxBackendLen }

ReplyBackends ==
    { [kind |-> "raise", text |-> <<>>] } \cup { [kind |-> "text", text |-> t] : t \in BackendTexts }

ReplyHistories == { [i \in 1..n |-> Scammer(TextStop)] : n \in {1, 4, 7} }

InitReply ==
    /\ Fresh
    /\ tasks = <<>>
    /\ use_gemini \in BOOLEAN
    /\ arg \in [incoming_message : {TextShareOtp, TextStop},
                conversation_history : ReplyHistories,
                backend : ReplyBackends,
                rnd : [strategy : 0..MaxDraw, reply : 0..MaxDraw]]
    /\ ret = NoResult

CallGenerateResponse ==
    /\ ~ret.done
    /\ ret' = [done |-> TRUE,
               result |-> GenerateResponse(arg.incoming_message, arg.conversation_history,
                                           use_gemini, arg.backend, arg.rnd)]
    /\ UNCHANGED <<service, arg>>

NextReply == CallGenerateResponse

SpecReply == InitReply /\ [][NextReply]_vars

\* ScamEngagementAgent._determine_strategy(incoming_message, message_count, ...)
MaxStrategyWords == 3

MaxMessageCount == 7

StrategyWords == <<"hello", "urgent", "verify", "confirm", "link", "upi", "otp", "payment">>

\* The texts made of at most n words of the list, in its order.
OrderedTexts(list, n) ==
    UNION { { [i \in 1..k |-> list[p[i]]] :
                p \in { q \in [1..k -> 1..Len(list)] :
                          \A i \in 1..k, j \in 1..k : i < j => q[i] < q[j] } } :
            k \in 0..n }

InitStrategy ==
    /\ Fresh
    /\ tasks = <<>>
    /\ use_gemini = FALSE
    /\ arg \in [incoming_message : OrderedTexts(StrategyWords, MaxStrategyWords),
                message_count : 1..MaxMessageCount,
                draw : 0..MaxDraw]
    /\ ret = NoResult

CallDetermineStrategy ==
    /\ ~ret.done
    /\ ret' = [done |-> TRUE,
               result |-> DetermineStrategy(arg.incoming_message, arg.message_count, arg.draw)]
    /\ UNCHANGED <<service, arg>>

NextStrategy == CallDetermineStrategy

SpecStrategy == InitStrategy /\ [][NextStrategy]_vars

\* IntelligenceExtractor.extract(conversation, latest_message), called
\* more than once on one extractor.  arg holds the extractor and the
\* arguments as each call leaves them, ret the results in order.
MaxTranscript == 5

MaxExtractCalls == 2

ExtractCatalogue ==
    [i \in 1..5 |-> Scammer(TranscriptBankBlock[i])] \o << [sender |-> "user", text |-> TextPay] >>

\* The conversations made of at most MaxTranscript messages of the
\* catalogue, in its order.
Conversations == OrderedTexts(ExtractCatalogue, MaxTranscript)

\* What extract reads of the extractor.
Extractor == [suspicious_keywords |-> suspicious_keywords]

\* extract that also records the latest message in the conversation it
\* was given.
ExtractCallAppending(self, conversation, latest_message) ==
    [result         |-> Extract(conversation, latest_message),
     self           |-> self,
     conversation   |-> Append(conversation, Scammer(latest_message)),
     latest_message |-> latest_message]

\* One call of extract: its result, and the extractor and the arguments
\* after it.  The dict it fills and the lists it builds are its own; it
\* assigns nothing to self and to its arguments.
ExtractCall(self, conversation, latest_message) ==
    [result         |-> Extract(conversation, latest_message),
     self           |-> self,
     conversation   |-> conversation,
     latest_message |-> latest_message]

InitExtract ==
    /\ Fresh
    /\ tasks = <<>>
    /\ use_gemini = FALSE
    /\ \E conversation \in Conversations :
          \E latest_message \in {TextShareOtp} \cup {conversation[i].text : i \in {Len(conversation)} \ {0}} :
             arg = [self |-> Extractor,
                    conversation |-> conversation,
                    latest_message |-> latest_message]
    /\ ret = [done |-> FALSE, results |-> <<>>]

CallExtract ==
    LET call == ExtractCall(arg.self, arg.conversation, arg.latest_message)
    IN  /\ Len(ret.results) < MaxExtractCalls
        /\ ret' = [done |-> TRUE, results |-> Append(ret.results, call.result)]
        /\ arg' = [self |-> call.self, conversation |-> call.conversation,
                   latest_message |-> call.latest_message]
        /\ UNCHANGED service

NextExtract == CallExtract

SpecExtract == InitExtract /\ [][NextExtract]_vars

\* _clean_and_validate_accounts(account_matches) and
\* _clean_and_validate_phones(phone_matches) on one candidate.
MaxDigits == 20

DigitChar(n) == <<"0", "1", "2", "3", "4", "5", "6", "7", "8", "9">>[(n % 10) + 1]

\* n digits counting up from `first`: 1234567890 12 from 1.
CountingUp(first, n) == [i \in 1..n |-> DigitChar(first + i - 1)]

\* n digits counting down from 9: 9876543210 98.
CountingDown(n) == [i \in 1..n |-> DigitChar(10 - i)]

\* The candidate with a hyphen after its fifth character.
Hyphenated(candidate) ==
    IF Len(candidate) <= 5 THEN candidate
    ELSE SubSeq(candidate, 1, 5) \o <<"-">> \o SubSeq(candidate, 6, Len(candidate))

AccountCandidates ==
    LET plain == {CountingUp(first, n) : first \in {1, 4, 7}, n \in 7..MaxDigits}
    IN  plain \cup {Hyphenated(c) : c \in plain}

InitAccounts ==
    /\ Fresh
    /\ tasks = <<>>
    /\ use_gemini = FALSE
    /\ arg \in [account : AccountCandidates]
    /\ ret = NoResult

CallCleanAndValidateAccounts ==
    /\ ~ret.done
    /\ ret' = [done |-> TRUE, result |-> CleanAndValidateAccounts(<<arg.account>>)]
    /\ UNCHANGED <<service, arg>>

NextAccounts == CallCleanAndValidateAccounts

SpecAccounts == InitAccounts /\ [][NextAccounts]_vars

PhonePrefixes == {<<>>, <<"+">>, <<"0">>, <<"9", "1">>, <<"+", "9", "1">>}

PhoneCandidates ==
    LET plain == {prefix \o CountingDown(n) : prefix \in PhonePrefixes, n \in 6..(MaxDigits - 4)}
    IN  plain \cup {Hyphenated(c) : c \in plain}

InitPhones ==
    /\ Fresh
    /\ tasks = <<>>
    /\ use_gemini = FALSE
    /\ arg \in [phone : PhoneCandidates]
    /\ ret = NoResult

CallCleanAndValidatePhones ==
    /\ ~ret.done
    /\ ret' = [done |-> TRUE, result |-> CleanAndValidatePhones(<<arg.phone>>)]
    /\ UNCHANGED <<service, arg>>

NextPhones == CallCleanAndValidatePhones

SpecPhones == InitPhones /\ [][NextPhones]_vars

(***************************************************************************)
(* Requests in flight together: handle_message as a coroutine of the       *)
(* event loop.  A handler runs from one await to the next; the loop can    *)
(* give the turn to another handler only where the awaited call suspends.  *)
(***************************************************************************)

MaxInFlight == 2

InFlight == 1..MaxInFlight

\* Every awaited call suspends.
SuspendsAlways(point) == TRUE

\* Whether the call awaited at `point` gives the turn back to the loop:
\* analyze, extract, generate_response, should_end_conversation and
\* generate_safe_response are coroutines that run to their return without
\* awaiting a future (model.generate_content is a blocking call).
Suspends(point) == FALSE

ConcRequests ==
    [sessionId : SessionIds,
     message : {Scammer(TextShareOtp), Scammer(TextStopShareOtp), Scammer(TextPay)},
     conversationHistory : {<<>>}]

ConcBackend == [kind |-> "raise", text |-> <<>>]

ConcDraw == [strategy |-> 0, reply |-> 0]

InitConc ==
    /\ Fresh
    /\ use_gemini = FALSE
    /\ tasks \in [InFlight -> [request : ConcRequests, pc : {"start"}]]
    /\ arg = <<>>
    /\ ret = <<>>

\* The loop runs handler t: it holds the turn, or nobody does.
Turn(t) == running \in {Idle, t}

\* Handler t moves to `point`: the next await, or "done" at its return.
Advance(t, point) ==
    /\ tasks' = [tasks EXCEPT ![t].pc = point]
    /\ running' = IF point = "done" \/ Suspends(point) THEN Idle ELSE t

Answer(t, is_scam, evaluated, should_end, reply) ==
    LET request == tasks[t].request
    IN  /\ response' = [op |-> "handle_message", session_id |-> request.sessionId,
                        status |-> 200, reply |-> reply, scamDetected |-> is_scam,
                        confidenceScore |-> ScamResult(request).confidence]
        /\ last' = [sessionId |-> request.sessionId, message |-> request.message,
                    conversationHistory |-> request.conversationHistory,
                    is_scam |-> is_scam, evaluated |-> evaluated,
                    should_end |-> should_end]

\* Lines 152-186: up to `await scam_detector.analyze(...)`.
BeginHandler(t) ==
    LET request == tasks[t].request
    IN  /\ Turn(t)
        /\ tasks[t].pc = "start"
        /\ sessions' = Put(sessions, request.sessionId, Received(sessions, request))
        /\ requests' = requests + 1
        /\ Advance(t, "analyze")
        /\ UNCHANGED <<use_gemini, callback_tasks, callback_log, dispatched, decisions,
                       last, response, arg, ret>>

\* Lines 186-198: from the result of analyze up to `await ...extract(...)`.
ResumeAfterAnalyze(t) ==
    LET request == tasks[t].request
        sid     == request.sessionId
    IN  /\ Turn(t)
        /\ tasks[t].pc = "analyze"
        /\ sessions' = Put(sessions, sid, Classified(sessions[sid], ScamResult(request)))
        /\ Advance(t, "extract")
        /\ UNCHANGED <<use_gemini, callback_tasks, callback_log, dispatched, decisions,
                       last, response, requests, arg, ret>>

\* Lines 198-217 and 262-264: the merge, then up to the await of the branch.
ResumeAfterExtract(t) ==
    LET request == tasks[t].request
        sid     == request.sessionId
    IN  /\ Turn(t)
        /\ tasks[t].pc = "extract"
        /\ sessions' = Put(sessions, sid, Extracted(sessions[sid], request))
        /\ Advance(t, IF ScamResult(request).is_scam
                      THEN "generate_response" ELSE "generate_safe_response")
        /\ UNCHANGED <<use_gemini, callback_tasks, callback_log, dispatched, decisions,
                       last, response, requests, arg, ret>>

\* Lines 217-236: from the reply up to `await ai_agent.should_end_conversation(...)`.
ResumeAfterGenerateResponse(t) ==
    LET request == tasks[t].request
        sid     == request.sessionId
        agent_response == GenerateResponse(request.message.text, AllMessages(request),
                                           use_gemini, ConcBackend, ConcDraw)
    IN  /\ Turn(t)
        /\ tasks[t].pc = "generate_response"
        /\ sessions' = Put(sessions, sid,
                           Replied(sessions[sid], ScamResult(request), agent_response))
        /\ Advance(t, "should_end_conversation")
        /\ UNCHANGED <<use_gemini, callback_tasks, callback_log, dispatched, decisions,
                       last, response, requests, arg, ret>>

\* Lines 236-261: from the termination decision to the return.
ResumeAfterShouldEnd(t) ==
    LET request    == tasks[t].request
        sid        == request.sessionId
        session    == sessions[sid]
        should_end == ShouldEndConversation(session, LastFive(AllMessages(request)))
    IN  /\ Turn(t)
        /\ tasks[t].pc = "should_end_conversation"
        /\ decisions' = [decisions EXCEPT ![sid] =
                            Append(@, [count |-> Len(session.messages), end |-> should_end])]
        /\ dispatched' =
             IF should_end THEN [dispatched EXCEPT ![sid] = @ + 1] ELSE dispatched
        /\ callback_tasks' =
             IF should_end THEN Append(callback_tasks, FinalResultPayload(sid, session))
             ELSE callback_tasks
        /\ Answer(t, TRUE, TRUE, should_end,
                  session.messages[Len(session.messages)].text)
        /\ Advance(t, "done")
        /\ UNCHANGED <<sessions, use_gemini, callback_log, requests, arg, ret>>

\* Lines 264-274: from the safe reply to the return.
ResumeAfterSafeResponse(t) ==
    /\ Turn(t)
    /\ tasks[t].pc = "generate_safe_response"
    /\ Answer(t, FALSE, FALSE, FALSE, GenerateSafeResponse(ConcDraw.reply))
    /\ Advance(t, "done")
    /\ UNCHANGED <<sessions, use_gemini, callback_tasks, callback_log, dispatched,
                   decisions, requests, arg, ret>>

NextConc ==
    \/ \E t \in InFlight : BeginHandler(t)
    \/ \E t \in InFlight : ResumeAfterAnalyze(t)
    \/ \E t \in InFlight : ResumeAfterExtract(t)
    \/ \E t \in InFlight : ResumeAfterGenerateResponse(t)
    \/ \E t \in InFlight : ResumeAfterShouldEnd(t)
    \/ \E t \in InFlight : ResumeAfterSafeResponse(t)

SpecConc == InitConc /\ [][NextConc]_vars

\* The store and the termination decisions after serving the requests of
\* the handlers one after the other in the given order.
RECURSIVE Sequential(_, _)
Sequential(state, order) ==
    IF order = <<>> THEN state
    ELSE LET request == tasks[Head(order)].request
             sid     == request.sessionId
             h == Handle(state.sessions, request, use_gemini, ConcBackend, ConcDraw)
         IN  Sequential(
                [sessions  |-> Put(state.sessions, sid, h.session),
                 decisions |-> IF h.evaluated
                               THEN [state.decisions EXCEPT ![sid] =
                                        Append(@, [count |-> Len(h.session.messages),
                                                   end |-> h.should_end])]
                               ELSE state.decisions],
                Tail(order))

Orders == { o \in [InFlight -> InFlight] : \A i \in InFlight, j \in InFlight : i # j => o[i] # o[j] }


(***************************************************************************)
(* extract over a growing history: each request carries the messages sent  *)
(* so far, and the latest of them again as latest_message                  *)
(***************************************************************************)

MaxGrow == 4

TextOtpShare == <<"otp", "please", "share">>

GrowCatalogue ==
    { Scammer(TextOtpShare), Scammer(TextStop), Scammer(TextShareOtp), Scammer(TextPay) }

InitGrow ==
    /\ Fresh
    /\ tasks = <<>>
    /\ use_gemini = FALSE
    /\ arg = [conversation |-> <<>>]
    /\ ret = [done |-> FALSE, results |-> <<>>]

\* main.py 183, 198-201: extract(conversation = all_messages,
\* latest_message = incoming_message.text), for one more counterpart message.
CallExtractGrowing ==
    \E msg \in GrowCatalogue :
        /\ Len(arg.conversation) < MaxGrow
        /\ arg' = [conversation |-> Append(arg.conversation, msg)]
        /\ ret' = [done |-> TRUE,
                   results |-> Append(ret.results,
                                      Extract(Append(arg.conversation, msg), msg.text))]
        /\ UNCHANGED service

NextGrow == CallExtractGrowing

SpecGrow == InitGrow /\ [][NextGrow]_vars

(***************************************************************************)
(* _generate_gemini_response on long backend texts                         *)
(***************************************************************************)

MaxBackendText == 502

\* A text of n letters, with one space at position sp when sp is not 0.
LongText(n, sp) == [i \in 1..n |-> IF i = sp THEN " " ELSE "a"]

InitTruncate ==
    /\ Fresh
    /\ tasks = <<>>
    /\ use_gemini = TRUE
    /\ \E n \in (MaxReplyLen - 1)..MaxBackendText, sp \in 0..MaxBackendText :
          /\ sp < n
          /\ arg = [text |-> LongText(n, sp), sp |-> sp]
    /\ ret = NoResult

\* Lines 298-311: the reply made of the text the backend returned.
CallGenerateGeminiResponse ==
    /\ ~ret.done
    /\ ret' = [done |-> TRUE, reply |-> CleanGeminiText(arg.text)]
    /\ UNCHANGED <<service, arg>>

NextTruncate == CallGenerateGeminiResponse

SpecTruncate == InitTruncate /\ [][NextTruncate]_vars

(***************************************************************************)
(* Properties of the service                                               *)
(***************************************************************************)

\* The step is a handle_message.
HandleStep == requests' = requests + 1

\* The step is a delete_session / get_session that changes the state.
DeleteStep ==
    response'.op = "delete_session" /\ (response' # response \/ sessions' # sessions)

GetStep == response'.op = "get_session" /\ response' # response

\* C1: session intelligence is monotonic.  While a session stays in the
\* store no element leaves any of its five sets, and a handle_message leaves
\* each set equal to its previous value (empty for a new session) united
\* with what extract returned for that request.
C1_IntelligenceMonotonic ==
    [][ /\ \A sid \in DOMAIN sessions \cap DOMAIN sessions' : \A k \in IntelKeys :
              Range(sessions[sid].intelligence[k]) \subseteq Range(sessions'[sid].intelligence[k])
        /\ HandleStep =>
              LET sid == last'.sessionId
                  old == IF sid \in DOMAIN sessions
                         THEN sessions[sid].intelligence ELSE EmptyIntel
                  got == ExtractOf[last'.message, last'.conversationHistory]
              IN  \A k \in IntelKeys :
                     Range(sessions'[sid].intelligence[k]) = Range(old[k]) \cup Range(got[k]) ]_vars

\* C1 witness: a session holds keywords that two different requests brought.
C1_Witness ==
    /\ requests = 2
    /\ "s1" \in DOMAIN sessions
    /\ {"otp_fraud", "uses_paytm"} \subseteq Range(sessions["s1"].intelligence["suspiciousKeywords"])
    /\ "uses_paytm" \notin Range(ExtractOf[last.message, last.conversationHistory]["suspiciousKeywords"])

\* C2: the lifecycle is monotonic ACTIVE -> ENDED.  Once a termination
\* evaluation of a session has decided ENDED, every later evaluation of
\* that session decides ENDED as well.
C2_EndedStaysEnded ==
    \A sid \in SessionIds : \A i, j \in 1..Len(decisions[sid]) :
        (i < j /\ decisions[sid][i].end) => decisions[sid][j].end

\* C3: the final report of a session is dispatched at most once.
C3_ReportAtMostOnce == \A sid \in SessionIds : dispatched[sid] <= 1

\* The latest counterpart message of the request handled last holds the
\* phrase "stop asking questions".
LatestCounterpartSaysStop ==
    /\ last.sessionId # ""
    /\ HasKeyword(<<"stop", "asking", "questions">>,
                  LastScammerMessage(LastFive(last.conversationHistory \o <<last.message>>)))

\* C6 as stated: after handle_message has processed a request whose latest
\* counterpart message holds "stop asking questions", the session is ENDED
\* (the termination decision is true), whatever the classifier's verdict.
C6_SuspicionEndsAnySession == LatestCounterpartSaysStop => last.should_end

\* C6 amended: when the incoming message is classified as scam and the
\* latest counterpart message holds "stop asking questions", the termination
\* decision is true and a final report is dispatched, whatever the message
\* count of the session.
C6_SuspicionEndsScamSession ==
    (LatestCounterpartSaysStop /\ last.is_scam) =>
        /\ last.should_end
        /\ last.sessionId \in DOMAIN sessions =>
              /\ decisions[last.sessionId] # <<>>
              /\ decisions[last.sessionId][Len(decisions[last.sessionId])].end
              /\ dispatched[last.sessionId] >= 1

\* C6 witness: a scam-classified request with the phrase, ended below the
\* two message-count thresholds.
C6_Witness ==
    /\ LatestCounterpartSaysStop
    /\ last.is_scam
    /\ last.should_end
    /\ last.sessionId \in DOMAIN sessions
    /\ Len(sessions[last.sessionId].messages) < SufficientMessages

\* C10: a delete or a read of an id that is not stored answers 404 and
\* leaves the store as it is; a delete of a stored id answers 200 and removes
\* that session and no other; a read never changes the store.
C10_NotFound ==
    [][ /\ DeleteStep =>
              LET sid == response'.session_id
              IN  IF sid \in DOMAIN sessions
                  THEN /\ response'.status = 200
                       /\ DOMAIN sessions' = DOMAIN sessions \ {sid}
                       /\ \A k \in DOMAIN sessions' : sessions'[k] = sessions[k]
                  ELSE /\ response'.status = 404
                       /\ sessions' = sessions
        /\ GetStep =>
              /\ sessions' = sessions
              /\ response'.status = 404 <=> response'.session_id \notin DOMAIN sessions
              /\ response'.status = 200 <=> response'.session_id \in DOMAIN sessions ]_vars

\* C10 witness: a delete of an id that is not stored was answered 404 while
\* another session stays in the store.
C10_Witness ==
    /\ response.op = "delete_session"
    /\ response.status = 404
    /\ response.session_id \notin DOMAIN sessions
    /\ DOMAIN sessions # {}

\* C4 as stated: whenever a session holds 20 or more recorded messages it
\* is ENDED: its latest termination decision is true and a final report has
\* been dispatched.
C4_TwentyMessagesEnded ==
    \A sid \in DOMAIN sessions :
        Len(sessions[sid].messages) >= MessageLimit =>
            /\ decisions[sid] # <<>>
            /\ decisions[sid][Len(decisions[sid])].end
            /\ dispatched[sid] >= 1

\* C4 amended: whenever the termination check is evaluated (after a
\* scam-classified message) on a session that holds 20 or more recorded
\* messages, it decides ENDED, whatever the intelligence sets hold; and a
\* final report is dispatched for every ENDED decision.
C4_CapEndsEvaluatedSession ==
    \A sid \in SessionIds :
        /\ \A i \in 1..Len(decisions[sid]) :
              decisions[sid][i].count >= MessageLimit => decisions[sid][i].end
        /\ dispatched[sid] = Cardinality({i \in 1..Len(decisions[sid]) : decisions[sid][i].end})

\* C4 witness: an evaluation at exactly 20 messages decided ENDED with the
\* four payment categories empty, and the report was dispatched.
C4_Witness ==
    /\ "s1" \in DOMAIN sessions
    /\ Len(sessions["s1"].messages) = MessageLimit
    /\ decisions["s1"] # <<>>
    /\ decisions["s1"][Len(decisions["s1"])] = [count |-> MessageLimit, end |-> TRUE]
    /\ IntelTypesCount(sessions["s1"].intelligence) = 0
    /\ dispatched["s1"] = 1

\* C5: rule 2 of should_end_conversation.  With 11 recorded messages, all
\* four payment categories non-empty and no suspicion phrase in the latest
\* counterpart message the answer is false; with 12 messages and the same
\* intelligence it is true; and the rule's condition holds exactly when at
\* least two of the four categories are non-empty and the count is >= 12,
\* in which case the conversation ends.
C5_SufficiencyRule ==
    ret.done =>
        LET types == Cardinality(arg.categories)
        IN  /\ ( /\ arg.message_count = 11
                 /\ arg.categories = PaymentKeys
                 /\ ~ScammerSuspicious(arg.recent_messages) ) => ~ret.end
            /\ (arg.message_count = 12 /\ arg.categories = PaymentKeys) => ret.end
            /\ ret.sufficient <=> (types >= 2 /\ arg.message_count >= SufficientMessages)
            /\ ret.sufficient => ret.end

\* C5 witness: 12 messages, exactly two categories, nothing suspicious said:
\* the call answered true by rule 2 alone.
C5_Witness ==
    /\ ret.done
    /\ arg.message_count = 12
    /\ Cardinality(arg.categories) = 2
    /\ ~ScammerSuspicious(arg.recent_messages)
    /\ ret.sufficient
    /\ ret.end

\* C7: analyze returns a confidence in [0,1] (0..100 hundredths) and is_scam
\* is true exactly when the confidence is >= 0.5 or there are >= 3
\* indicators; three indicators suffice whatever the confidence.
C7_ConfidenceRangeAndVerdict ==
    ret.done =>
        LET r == ret.result
        IN  /\ r.confidence \in 0..100
            /\ r.is_scam <=> (r.confidence >= 50 \/ Len(r.indicators) >= 3)
            /\ Len(r.indicators) >= 3 => r.is_scam

\* C7 witness: a message with three indicators and a confidence below 0.5
\* is classified as a scam.
C7_Witness ==
    /\ ret.done
    /\ Len(ret.result.indicators) >= 3
    /\ ret.result.confidence < 50
    /\ ret.result.is_scam

\* C9: generate_response returns a non-empty reply whether no backend is
\* configured, the backend call raises, or it returns a text (an empty text
\* and a lone quotation mark included).
C9_ReplyNeverEmpty == ret.done => ret.result.reply # <<>>

\* C8: handlers of requests in flight together for one session id never
\* interleave their reads and writes of the session, and once all have
\* returned the store and the termination decisions are those of serving
\* the requests one after the other in some order.
C8_SerializedPerSession ==
    /\ \A t \in InFlight, u \in InFlight :
          ( /\ t # u
            /\ tasks[t].request.sessionId = tasks[u].request.sessionId
            /\ tasks[t].pc \notin {"start", "done"} ) => tasks[u].pc \in {"start", "done"}
    /\ (\A t \in InFlight : tasks[t].pc = "done") =>
          \E o \in Orders :
              LET seq == Sequential([sessions |-> <<>>,
                                     decisions |-> [s \in SessionIds |-> <<>>]], o)
              IN  sessions = seq.sessions /\ decisions = seq.decisions

\* C8 witness: two scam messages for the same session were in flight
\* together and both handlers have returned: the session holds each
\* incoming message followed by its own reply.
C8_Witness ==
    /\ \A t \in InFlight : tasks[t].pc = "done" /\ tasks[t].request.sessionId = "s1"
    /\ tasks[1].request.message # tasks[2].request.message
    /\ Len(sessions["s1"].messages) = 2 * MaxInFlight
    /\ \A i \in 1..MaxInFlight :
          /\ sessions["s1"].messages[2 * i - 1].sender = "scammer"
          /\ sessions["s1"].messages[2 * i].sender = "user"

\* A step of send_final_result_callback: outside a request, a line is
\* logged or the created tasks change.
CallbackStep ==
    /\ requests' = requests
    /\ callback_log' # callback_log \/ callback_tasks' # callback_tasks

\* C11: a failed delivery of the final report leaves every session and the
\* response as they were and schedules no retry (the task is gone and no
\* report is newly dispatched); and the handle_message that created the
\* task answers 200 with the agent reply it recorded in the session.
C11_DeliveryFailureIsolated ==
    [][ /\ (CallbackStep /\ callback_log' = "Failed to send final result") =>
              /\ sessions' = sessions
              /\ response' = response
              /\ callback_tasks' = Tail(callback_tasks)
              /\ dispatched' = dispatched
        /\ (HandleStep /\ last'.should_end) =>
              LET messages == sessions'[last'.sessionId].messages
              IN  /\ response'.status = 200
                  /\ response'.op = "handle_message"
                  /\ response'.reply = messages[Len(messages)].text ]_vars

\* C11 witness: the only report of a session failed to be delivered; the
\* response of the request that ended the session is still the 200 answer
\* and no task is left.
C11_Witness ==
    /\ callback_log = "Failed to send final result"
    /\ callback_tasks = <<>>
    /\ last.should_end
    /\ last.sessionId \in DOMAIN sessions
    /\ dispatched[last.sessionId] = 1
    /\ response.op = "handle_message"
    /\ response.status = 200

\* C12: at every stage of the conversation a message that holds one of the
\* payment keywords gets the strategy request_payment_details, whatever
\* else it holds.
C12_PaymentAlwaysWins ==
    (ret.done /\ AnyKeyword(payment_triggers, arg.incoming_message)) =>
        ret.result = "request_payment_details"

\* C13: the first message of the bank-block scenario, sent with an empty
\* history, is classified as a scam, with urgency_tactics and a threatening
\* or impersonation indicator, at a confidence of at least 0.5.
C13_BankBlockFirstMessageIsScam ==
    (ret.done /\ arg.message = TextBankBlock1 /\ arg.conversation_history = <<>>) =>
        LET r == ret.result
        IN  /\ r.is_scam
            /\ r.confidence >= 50
            /\ "urgency_tactics" \in Range(r.indicators)
            /\ \/ "threatening_language" \in Range(r.indicators)
               \/ "impersonation_attempt" \in Range(r.indicators)

\* The handle of the bank-block transcript occurs in a counterpart message
\* of the conversation or in the latest message.
HandleWasSent ==
    \/ "1234567890@paytm" \in Range(arg.latest_message)
    \/ \E i \in 1..Len(arg.conversation) :
          /\ arg.conversation[i].sender = "scammer"
          /\ "1234567890@paytm" \in Range(arg.conversation[i].text)

\* C14: extract returns in upiIds the handle 1234567890@paytm (a known
\* provider) whenever a counterpart message holds it, in particular over
\* the full bank-block transcript.
C14_HandleIsExtracted ==
    (ret.done /\ HandleWasSent) =>
        "1234567890@paytm" \in Range(ret.results[1]["upiIds"])

NoDuplicates(values) == \A i, j \in 1..Len(values) : values[i] = values[j] => i = j

\* C16: no list returned by extract holds an element twice, and after
\* every handle_message none of the five intelligence lists of a session
\* does.
C16_NoDuplicates ==
    /\ \A m \in Incoming, h \in Histories : \A k \in IntelKeys :
          NoDuplicates(ExtractOf[m, h][k])
    /\ \A sid \in DOMAIN sessions : \A k \in IntelKeys :
          NoDuplicates(sessions[sid].intelligence[k])

\* C16 witness: two messages of one session both yielded the tag otp_fraud,
\* which the session holds.
C16_Witness ==
    /\ "s1" \in DOMAIN sessions
    /\ last.sessionId = "s1"
    /\ Len(sessions["s1"].messages) = 4
    /\ "otp_fraud" \in Range(ExtractOf[last.message, last.conversationHistory]["suspiciousKeywords"])
    /\ "otp_fraud" \in Range(sessions["s1"].intelligence["suspiciousKeywords"])

\* The digits of a candidate, in order, as the claims speak of them.
DigitsOf(candidate) ==
    LET at == {i \in 1..Len(candidate) : candidate[i] \in Digits}
        RECURSIVE upto(_)
        upto(k) == IF k = 0 THEN <<>>
                   ELSE upto(k - 1) \o (IF k \in at THEN <<candidate[k]>> ELSE <<>>)
    IN  upto(Len(candidate))

\* C17: an account number of n digits, 9 <= n <= 18, comes out as its
\* first 4 digits, n-8 asterisks and its last 4 digits (length n, 8 digits
\* shown; 123456789012 gives 1234****9012); a run of fewer than 9 or more
\* than 18 digits is dropped.
C17_AccountMasking ==
    ret.done =>
        LET clean == DigitsOf(arg.account)
            n     == Len(clean)
        IN  /\ (n < 9 \/ n > 18) => ret.result = <<>>
            /\ (9 <= n /\ n <= 18) =>
                  /\ Len(ret.result) = 1
                  /\ Len(ret.result[1]) = n
                  /\ \A i \in 1..n :
                        ret.result[1][i] = IF i <= 4 \/ i > n - 4 THEN clean[i] ELSE "*"
                  /\ Cardinality({i \in 1..n : ret.result[1][i] \in Digits}) = 8
            /\ clean = <<"1", "2", "3", "4", "5", "6", "7", "8", "9", "0", "1", "2">> =>
                  ret.result = << <<"1", "2", "3", "4", "*", "*", "*", "*", "9", "0", "1", "2">> >>

\* C17 witness: 123456789012 was masked to 1234****9012.
C17_Witness ==
    /\ ret.done
    /\ arg.account = <<"1", "2", "3", "4", "5", "6", "7", "8", "9", "0", "1", "2">>
    /\ ret.result = << <<"1", "2", "3", "4", "*", "*", "*", "*", "9", "0", "1", "2">> >>

\* C18: a phone candidate with d digits is dropped when d < 10 or d > 15;
\* 12 digits starting with 91, and 11 digits starting with 0, give +91 and
\* the last 10 digits; 10 digits give +91 and the digits; any other
\* accepted candidate gives + and all its digits.  9876543210 and
\* +919876543210 both give +919876543210.
C18_PhoneNormalization ==
    ret.done =>
        LET digits == DigitsOf(arg.phone)
            d      == Len(digits)
            last10 == SubSeq(digits, d - 9, d)
        IN  /\ (d < 10 \/ d > 15) => ret.result = <<>>
            /\ (10 <= d /\ d <= 15) =>
                  ret.result =
                     << IF d = 12 /\ digits[1] = "9" /\ digits[2] = "1"
                            THEN <<"+", "9", "1">> \o last10
                        ELSE IF d = 11 /\ digits[1] = "0" THEN <<"+", "9", "1">> \o last10
                        ELSE IF d = 10 THEN <<"+", "9", "1">> \o digits
                        ELSE <<"+">> \o digits >>
            /\ arg.phone \in { CountingDown(10), <<"+", "9", "1">> \o CountingDown(10) } =>
                  ret.result = << <<"+", "9", "1">> \o CountingDown(10) >>

\* C18 witness: +919876543210 was given and came out as +919876543210.
C18_Witness ==
    /\ ret.done
    /\ arg.phone = <<"+", "9", "1", "9", "8", "7", "6", "5", "4", "3", "2", "1", "0">>
    /\ ret.result = << <<"+", "9", "1", "9", "8", "7", "6", "5", "4", "3", "2", "1", "0">> >>

IsPrefix(s, t) == Len(s) <= Len(t) /\ SubSeq(t, 1, Len(s)) = s

\* C19: the message list of a session is append-only: as long as the
\* session is in the store, its list before a step is a prefix of its list
\* after it, and handle_message adds the incoming message right after the
\* messages already recorded.
C19_MessagesAppendOnly ==
    [][ /\ \A sid \in DOMAIN sessions \cap DOMAIN sessions' :
              IsPrefix(sessions[sid].messages, sessions'[sid].messages)
        /\ HandleStep =>
              LET sid == last'.sessionId
                  old == IF sid \in DOMAIN sessions THEN sessions[sid].messages ELSE <<>>
              IN  /\ Len(sessions'[sid].messages) > Len(old)
                  /\ sessions'[sid].messages[Len(old) + 1] = last'.message ]_vars

\* C19 witness: a session that recorded two exchanges, four messages.
C19_Witness ==
    /\ "s1" \in DOMAIN sessions
    /\ requests = 2
    /\ Len(sessions["s1"].messages) = 4

\* C20: a session enters the store only by a handle_message for its id,
\* starting from empty messages, scam_detected false, confidence 0, five
\* empty intelligence lists and no notes; it leaves the store only by a
\* successful delete_session of its id; and after a handle_message for an
\* id the session of that id is in the store.
C20_SessionExistence ==
    [][ /\ NewSession = [messages |-> <<>>, scam_detected |-> FALSE, confidence_score |-> 0,
                         intelligence |-> [k \in IntelKeys |-> <<>>], agent_notes |-> <<>>]
        /\ \A sid \in DOMAIN sessions' \ DOMAIN sessions :
              LET session == sessions'[sid]
                  got     == ExtractOf[last'.message, last'.conversationHistory]
              IN  /\ HandleStep
                  /\ last'.sessionId = sid
                  /\ session.messages[1] = last'.message
                  /\ Len(session.messages) = IF last'.is_scam THEN 2 ELSE 1
                  /\ Len(session.agent_notes) = IF last'.is_scam THEN 1 ELSE 0
                  /\ session.scam_detected = last'.is_scam
                  /\ \A k \in IntelKeys : Range(session.intelligence[k]) = Range(got[k])
        /\ \A sid \in DOMAIN sessions \ DOMAIN sessions' :
              /\ response'.op = "delete_session"
              /\ response'.session_id = sid
              /\ response'.status = 200
        /\ HandleStep => last'.sessionId \in DOMAIN sessions' ]_vars

\* C20 witness: s2 was created and then deleted, while s1, for which the
\* ENDED decision was taken, is still in the store.
C20_Witness ==
    /\ "s1" \in DOMAIN sessions
    /\ "s2" \notin DOMAIN sessions
    /\ dispatched["s1"] >= 1
    /\ response.op = "delete_session"
    /\ response.session_id = "s2"
    /\ response.status = 200


\* The session a handle_message starts from: the stored one, or the one it creates.
Before(sid) == IF sid \in DOMAIN sessions THEN sessions[sid] ELSE NewSession

\* C21: the reply engine and the termination check are gated on the verdict.
\* A handle_message whose message the classifier calls non-scam evaluates no
\* termination, creates no report task (whatever the length of the session),
\* appends no agent note and answers a safe deflection with scamDetected
\* false; one whose message is called scam evaluates the termination exactly
\* once, on the list that already holds the agent reply as its last entry.
C21_VerdictGatesReplyAndTermination ==
    [][HandleStep =>
        LET sid  == last'.sessionId
            new  == sessions'[sid]
            seen == decisions'[sid]
        IN  IF ScamResult(last').is_scam
            THEN /\ Len(seen) = Len(decisions[sid]) + 1
                 /\ seen[Len(seen)].count = Len(new.messages)
                 /\ new.messages[Len(new.messages)] =
                        [sender |-> "user", text |-> response'.reply]
                 /\ response'.scamDetected
            ELSE /\ decisions' = decisions
                 /\ dispatched' = dispatched
                 /\ callback_tasks' = callback_tasks
                 /\ new.agent_notes = Before(sid).agent_notes
                 /\ response'.reply \in {<<safe_responses[i]>> : i \in DOMAIN safe_responses}
                 /\ ~response'.scamDetected]_vars

\* C21 witness: a non-scam message has just been handled in a session that
\* held 20 messages before it, and a scam message was evaluated earlier.
C21_Witness ==
    /\ "s1" \in DOMAIN sessions
    /\ last.sessionId = "s1"
    /\ ~ScamResult(last).is_scam
    /\ Len(sessions["s1"].messages) = MessageLimit + 1
    /\ decisions["s1"] # <<>>
    /\ ~response.scamDetected


\* C22: extraction does not depend on the verdict.  After a handle_message
\* whose message the classifier calls non-scam, every element extract
\* returned for that request is in the session's list of the same category.
C22_NonScamStillMerged ==
    [][(HandleStep /\ ~ScamResult(last').is_scam) =>
        LET got == ExtractOf[last'.message, last'.conversationHistory]
        IN  \A k \in IntelKeys :
               Range(got[k]) \subseteq Range(sessions'[last'.sessionId].intelligence[k])]_vars

\* C22 witness: the first message of a session is non-scam, extract returned
\* the keyword uses_paytm for it, and the session holds that keyword.
C22_Witness ==
    /\ requests = 1
    /\ last.message = Scammer(TextPay)
    /\ ~ScamResult(last).is_scam
    /\ ~response.scamDetected
    /\ last.sessionId \in DOMAIN sessions
    /\ ExtractOf[last.message, last.conversationHistory]["suspiciousKeywords"] = <<"uses_paytm">>
    /\ sessions[last.sessionId].intelligence["suspiciousKeywords"] = <<"uses_paytm">>


\* The messages of the conversation sent by the counterpart.
CounterpartOnly(conversation) ==
    SelectSeq(conversation, LAMBDA msg : msg.sender = "scammer")

\* C23: extract reads only counterpart text.  Every result of extract equals
\* the result for the conversation restricted to the messages whose sender
\* is "scammer", with the same latest message; and what the latest message
\* yields on its own is in the result.
C23_OnlyCounterpartText ==
    \A i \in 1..Len(ret.results) :
        /\ ret.results[i] = Extract(CounterpartOnly(arg.conversation), arg.latest_message)
        /\ \A k \in IntelKeys :
              Range(Extract(<<>>, arg.latest_message)[k]) \subseteq Range(ret.results[i][k])

\* C23 witness: the conversation holds a message of sender "user" that names
\* paytm, the latest message does not, and the result has no uses_paytm.
C23_Witness ==
    /\ ret.done
    /\ \E i \in 1..Len(arg.conversation) :
          /\ arg.conversation[i].sender = "user"
          /\ "uses_paytm" \in Range(Extract(<<>>, arg.conversation[i].text)["suspiciousKeywords"])
    /\ arg.latest_message = TextShareOtp
    /\ "uses_paytm" \notin Range(ret.results[1]["suspiciousKeywords"])
    /\ "otp_fraud" \in Range(ret.results[1]["suspiciousKeywords"])


\* C24: extract over a growing history only adds matches.  When the
\* conversation is extended with one more counterpart message, every element
\* extract returned for the shorter conversation is returned for the longer.
C24_GrowingHistoryOnlyAdds ==
    \A i \in 1..(Len(ret.results) - 1) :
        \A k \in IntelKeys :
            Range(ret.results[i][k]) \subseteq Range(ret.results[i + 1][k])


\* The nine contributions of the score formula for one call of analyze, in
\* hundredths, each with the indicator it stands for.
ScoreParts(message, conversation_history) ==
    << [tag |-> "urgency_tactics",
        value |-> Min(Hits(urgency_keywords, message) * 15, 30)],
       [tag |-> "threatening_language",
        value |-> Min(Hits(threat_keywords, message) * 20, 40)],
       [tag |-> "suspicious_requests",
        value |-> Min(Hits(request_keywords, message) * 10, 25)],
       [tag |-> "financial_focus",
        value |-> Min(Hits(financial_keywords, message) * 12, 30)],
       [tag |-> "impersonation_attempt",
        value |-> Min(Hits(impersonation_keywords, message) * 15, 35)],
       [tag |-> "contains_links",
        value |-> IF HasUrl(message) THEN 25 ELSE 0],
       [tag |-> "requests_sensitive_data",
        value |-> IF AnyKeyword(sensitive_patterns, message) THEN 35 ELSE 0],
       [tag |-> "unsolicited_contact",
        value |-> IF conversation_history = <<>> /\ AnyKeyword(cold_approach_phrases, message)
                  THEN 20 ELSE 0],
       [tag |-> "poor_grammar",
        value |-> IF HasPoorGrammar(message) THEN 10 ELSE 0] >>

\* C25: the score formula of the classifier.  The confidence analyze returns
\* is min(1, sum of the nine contributions), the keyword categories
\* contributing min(hits * weight, cap) and the four flags a fixed amount at
\* most once; an indicator is listed exactly when its contribution is not
\* zero.
C25_ScoreFormula ==
    ret.done =>
        LET parts == ScoreParts(arg.message, arg.conversation_history)
            total == parts[1].value + parts[2].value + parts[3].value + parts[4].value
                     + parts[5].value + parts[6].value + parts[7].value + parts[8].value
                     + parts[9].value
        IN  /\ ret.result.confidence = Min(100, total)
            /\ \A i \in 1..9 :
                  parts[i].tag \in Range(ret.result.indicators) <=> parts[i].value > 0

\* C25 witness: three urgency keywords hit, the category is held at its cap
\* of 0.3, and no other indicator is raised.
C25_Witness ==
    /\ ret.done
    /\ Hits(urgency_keywords, arg.message) = 3
    /\ ret.result.confidence = 30
    /\ ret.result.indicators = <<"urgency_tactics">>


\* C26: on the backend path the reply is never longer than 500 characters:
\* a longer backend text is cut to 500 characters on a word boundary.
C26_ReplyAtMost500 == ret.done => Len(ret.reply) <= MaxReplyLen


\* C27: one indicator is never enough.  No contribution reaches 0.5 on its
\* own, so a message with at most one indicator is not a scam whatever its
\* hit count, is_scam implies two indicators or more, and each message of
\* the legitimate scenario (at most one indicator) is not a scam.
C27_SingleIndicatorNeverScam ==
    ret.done =>
        LET r   == ret.result
            sig == Signals(arg.message, arg.conversation_history)
        IN  /\ \A i \in 1..Len(sig) : sig[i].add < 50
            /\ Len(r.indicators) <= 1 => ~r.is_scam
            /\ r.is_scam => Len(r.indicators) >= 2
            /\ arg.message \in Range(TranscriptLegitimate) =>
                  Len(r.indicators) <= 1 /\ ~r.is_scam

\* C27 witness: two threat keywords hit, the only indicator is
\* threatening_language at its cap of 0.4, and the message is not a scam.
C27_Witness ==
    /\ ret.done
    /\ Hits(threat_keywords, arg.message) = 2
    /\ ret.result.indicators = <<"threatening_language">>
    /\ ret.result.confidence = 40
    /\ ~ret.result.is_scam


\* C28: message-count accounting.  A handle_message classified as scam grows
\* the session's list by exactly the incoming message followed by the agent
\* reply with sender "user"; one classified as non-scam grows it by exactly
\* the incoming message.  The termination decision of a scam step is the one
\* of the rules on the list that already holds the reply, and the count it
\* records is that list's length.
C28_MessageCountAccounting ==
    [][HandleStep =>
        LET sid  == last'.sessionId
            old  == Before(sid).messages
            new  == sessions'[sid]
            seen == decisions'[sid]
        IN  IF ScamResult(last').is_scam
            THEN /\ new.messages =
                       old \o <<last'.message, [sender |-> "user", text |-> response'.reply]>>
                 /\ seen # <<>>
                 /\ seen[Len(seen)].count = Len(old) + 2
                 /\ seen[Len(seen)].end =
                       ShouldEndConversation(new, LastFive(AllMessages(last')))
            ELSE new.messages = old \o <<last'.message>>]_vars

\* C28 witness: a session of 20 messages built from scam and non-scam
\* messages; the latest was a scam, its reply is the 20th entry, and the
\* decision taken at count 20 ended the conversation.
C28_Witness ==
    /\ "s1" \in DOMAIN sessions
    /\ ScamResult(last).is_scam
    /\ Len(sessions["s1"].messages) = MessageLimit
    /\ sessions["s1"].messages[MessageLimit - 1] = last.message
    /\ sessions["s1"].messages[MessageLimit] = [sender |-> "user", text |-> response.reply]
    /\ 2 * Len(decisions["s1"]) < MessageLimit
    /\ decisions["s1"][Len(decisions["s1"])] = [count |-> MessageLimit, end |-> TRUE]
    /\ \A i \in 1..(Len(decisions["s1"]) - 1) : ~decisions["s1"][i].end


\* C29: the session's flag and confidence are those of the latest message.
\* After every handle_message scam_detected and confidence_score equal the
\* classifier's verdict and confidence for that request, whatever they were
\* before; and every final report waiting to be sent carries scamDetected
\* true.
C29_FlagFollowsLatestMessage ==
    [][HandleStep =>
        LET new == sessions'[last'.sessionId]
        IN  /\ new.scam_detected = ScamResult(last').is_scam
            /\ new.confidence_score = ScamResult(last').confidence
            /\ \A i \in 1..Len(callback_tasks') : callback_tasks'[i].scamDetected]_vars

\* C29 witness: session s1 was ended by a scam message and its report
\* (scamDetected true) is waiting; a later non-scam message left the
\* session with scam_detected false and confidence 0.
C29_Witness ==
    /\ "s1" \in DOMAIN sessions
    /\ requests = 2
    /\ last.sessionId = "s1"
    /\ dispatched["s1"] = 1
    /\ \E i \in 1..Len(callback_tasks) :
          callback_tasks[i].sessionId = "s1" /\ callback_tasks[i].scamDetected
    /\ ~ScamResult(last).is_scam
    /\ ~sessions["s1"].scam_detected
    /\ sessions["s1"].confidence_score = 0


\* C30: a final report never carries the default notes.  A handle_message
\* classified as scam has at least one indicator and non-empty classifier
\* notes, and appends exactly that one entry to agent_notes; one classified
\* as non-scam leaves agent_notes as it was; and the report a step builds
\* carries the session's notes, which are not empty.
C30_ReportNotesNeverDefault ==
    [][HandleStep =>
        LET sid  == last'.sessionId
            old  == Before(sid).agent_notes
            new  == sessions'[sid].agent_notes
            r    == ScamResult(last')
        IN  /\ IF r.is_scam
               THEN /\ r.indicators # <<>>
                    /\ r.notes # <<>>
                    /\ r.notes # <<"No significant scam indicators detected">>
                    /\ new = Append(old, r.notes)
               ELSE new = old
            /\ callback_tasks' # callback_tasks =>
                  LET payload == callback_tasks'[Len(callback_tasks')]
                  IN  /\ new # <<>>
                      /\ payload.agentNotes = new
                      /\ payload.agentNotes #
                            << <<"Scam engagement completed successfully">> >>]_vars

\* C30 witness: session s1 took a non-scam message and then a scam message
\* that ended it; it holds one note, and the report built carries it.
C30_Witness ==
    /\ "s1" \in DOMAIN sessions
    /\ requests = 2
    /\ last.sessionId = "s1"
    /\ ScamResult(last).is_scam
    /\ Len(sessions["s1"].messages) = 3
    /\ Len(sessions["s1"].agent_notes) = 1
    /\ callback_tasks # <<>>
    /\ callback_tasks[Len(callback_tasks)].sessionId = "s1"
    /\ callback_tasks[Len(callback_tasks)].agentNotes = sessions["s1"].agent_notes

====
